---- MODULE Spec2Model ----
(***************************************************************************)
(* State-machine model of quant::OrderBook (src/src/order_book.cpp) and    *)
(* quant::OrderPool (src/include/quant/order_pool.hpp).                    *)
(*                                                                         *)
(* Prices are IEEE doubles in the source; the book only compares them      *)
(* exactly (std::map keys, <, >), so they are modelled as integer ticks.   *)
(* Quantities and ids are uint64 counters that only ever decrease towards  *)
(* zero or increase by one, so no wrap-around is reachable in the bounds.  *)
(***************************************************************************)
EXTENDS Integers, Sequences, FiniteSets, TLC

\* ------------------------------------------------------------------ bounds
\* The source reserves 1'000'000'000 slots (order_book.cpp:9); the model
\* keeps a handful so that slot reuse through the LIFO free list happens.
PoolCapacity == 3
MaxPrice == 2
MaxQty == 2
MaxSuppliedId == 1
MaxTimestamp == 3
\* The program asks for 4096 slots (network_server.cpp:496); the model asks
\* for a queue that a single input message can fill.
OutCapacity == 2
\* The number of input messages the engine pops in one run.
MaxMessages == 3

\* ------------------------------------------------------------ constants
\* The list sentinel UINT32_MAX (all bits set): any value that is no pool
\* index; TLC integers are 32-bit signed, so the same bit pattern is -1.
UINT32_MAX == -1
Buy == 0
Sell == 1

\* MaxPrice ticks; no caller checks the sign of a price (network_server.cpp:369-384),
\* so the lowest tick is the price 0.0.
Prices == 0..(MaxPrice - 1)
Quantities == 0..MaxQty
Users == {1}
PoolIdx == 0..(PoolCapacity - 1)

VARIABLES
    bids_,            \* std::map<double, PriceLevel, greater>: price -> [head, tail]
    asks_,            \* std::map<double, PriceLevel, less>
    order_index_,     \* unordered_map<uint64_t, OrderRef>: id -> [side, price, idx]
    next_order_id_,
    next_trade_id_,
    next_timestamp_,
    storage_,         \* OrderPool::storage_ : idx -> PoolOrder
    free_list_,       \* OrderPool::free_list_ : sequence, back = last element
    lastCall,         \* the most recent public call: arguments and results
    roundTrip,        \* snapshots taken before a submit that rested without trading
    order_user_,      \* MatchingServer::order_user_ : order id -> user id
    pnl_,             \* PnLEngine of tracked_user_id_
    bs_pnl_,          \* PnLEngine of the bot
    last_tob,         \* engine_loop local: the last TopOfBook emitted
    have_last_tob,    \* engine_loop local
    out_queue_,       \* MatchingServer::out_queue_ : items queued, oldest first
    processed,        \* the last input message and every push it caused
    popped,           \* how many input messages the engine has popped
    stream,           \* trade ids, order ids and the last top of book emitted so far,
                      \* the book of a client that was handed every output, and
                      \* what each tracked user bought less what it sold
    rings,            \* the SPSCQueue objects the threads share, by name
    threads,          \* per thread: where it is inside push or pop, and its locals
    history,          \* who called push and pop, and the items they returned true for
    running_,         \* MatchingServer::running_
    loop,             \* engine_loop: the line it is at and its local `processed`
    stopping,         \* the caller of stop(): where it is, and what it has seen since
    clients_,         \* NetworkServer::clients_ : fd -> ClientState
    to_remove,        \* run_loop local: the fds to close at the end of the iteration
    run_loop          \* NetworkServer::run_loop: the step it is at

bookVars == <<bids_, asks_, order_index_, next_order_id_, next_trade_id_,
              next_timestamp_, storage_, free_list_>>
engineVars == <<order_user_, pnl_, bs_pnl_, last_tob, have_last_tob,
                out_queue_, processed, popped, stream>>
queueVars == <<rings, threads, history>>
serverVars == <<bids_, asks_, order_index_, next_order_id_, next_trade_id_,
                next_timestamp_, storage_, free_list_, lastCall, roundTrip,
                order_user_, pnl_, bs_pnl_, last_tob, have_last_tob,
                out_queue_, processed, popped, stream>>
vars == <<bids_, asks_, order_index_, next_order_id_, next_trade_id_,
          next_timestamp_, storage_, free_list_, lastCall, roundTrip,
          order_user_, pnl_, bs_pnl_, last_tob, have_last_tob,
          out_queue_, processed, popped, stream, rings, threads, history,
          running_, loop, stopping, clients_, to_remove, run_loop>>
lifeVars == <<running_, loop, stopping>>
netVars == <<clients_, to_remove, run_loop>>

\* ------------------------------------------------------------- helpers
MinOf(S) == CHOOSE x \in S : \A y \in S : x <= y
MaxOf(S) == CHOOSE x \in S : \A y \in S : x >= y
Erase(f, k) == [x \in (DOMAIN f) \ {k} |-> f[x]]
Put(f, k, v) == [x \in (DOMAIN f) \cup {k} |-> IF x = k THEN v ELSE f[x]]

\* value-initialised PoolOrder (order_pool.hpp:8-20)
PoolOrderInit ==
    [order_id |-> 0, user_id |-> 0, side |-> 0, price |-> 0, quantity |-> 0,
     timestamp |-> 0, prev |-> UINT32_MAX, next |-> UINT32_MAX, active |-> FALSE]

\* default PriceLevel (order_book.hpp:47-50)
PriceLevelInit == [head |-> UINT32_MAX, tail |-> UINT32_MAX]

\* The book as one value, so that the member functions are operators on it.
Book ==
    [bids_ |-> bids_, asks_ |-> asks_, order_index_ |-> order_index_,
     next_order_id_ |-> next_order_id_, next_trade_id_ |-> next_trade_id_,
     next_timestamp_ |-> next_timestamp_, storage_ |-> storage_,
     free_list_ |-> free_list_]

\* ---------------------------------------------------------- OrderPool
\* OrderPool::allocate: pop the back of the free list, mark active.
allocate(b) ==
    LET idx == b.free_list_[Len(b.free_list_)]
    IN [idx |-> idx,
        b |-> [b EXCEPT !.free_list_ = SubSeq(b.free_list_, 1, Len(b.free_list_) - 1),
                        !.storage_[idx].active = TRUE,
                        !.storage_[idx].prev = UINT32_MAX,
                        !.storage_[idx].next = UINT32_MAX]]

\* OrderPool::release: mark inactive, reset links, push on the free list.
release(b, idx) ==
    [b EXCEPT !.storage_[idx].active = FALSE,
              !.storage_[idx].prev = UINT32_MAX,
              !.storage_[idx].next = UINT32_MAX,
              !.free_list_ = Append(b.free_list_, idx)]

\* ---------------------------------------------------------- OrderBook
\* Operators that build on one another take their intermediate results as
\* parameters, one step of the source per operator.

level_empty(level) == level.head = UINT32_MAX

\* The price map of one side.
side_map(b, side) == IF side = Buy THEN b.bids_ ELSE b.asks_

\* Store `level` under `price` in the map of `side` (creating the key).
set_level(b, side, price, level) ==
    IF side = Buy
      THEN [b EXCEPT !.bids_ = Put(b.bids_, price, level)]
      ELSE [b EXCEPT !.asks_ = Put(b.asks_, price, level)]

\* Erase the key `price` from the map of `side`.
erase_level(b, side, price) ==
    IF side = Buy
      THEN [b EXCEPT !.bids_ = Erase(b.bids_, price)]
      ELSE [b EXCEPT !.asks_ = Erase(b.asks_, price)]

\* A level that links the new node in front of the head.
prepend_to_level(s, lv, idx) ==
    [storage_ |->
        [k \in DOMAIN s |->
            IF k = idx THEN [s[k] EXCEPT !.next = lv.head, !.prev = UINT32_MAX]
            ELSE IF lv.head /= UINT32_MAX /\ k = lv.head
                   THEN [s[k] EXCEPT !.prev = idx]
                   ELSE s[k]],
     level |->
        [head |-> idx,
         tail |-> IF lv.tail = UINT32_MAX THEN idx ELSE lv.tail]]

\* append_to_level (order_book.cpp:23-32) on storage s and level lv.
append_to_level(s, lv, idx) ==
    [storage_ |->
        [k \in DOMAIN s |->
            IF k = idx THEN [s[k] EXCEPT !.prev = lv.tail, !.next = UINT32_MAX]
            ELSE IF lv.tail /= UINT32_MAX /\ k = lv.tail
                   THEN [s[k] EXCEPT !.next = idx]
                   ELSE s[k]],
     level |->
        [head |-> IF lv.head = UINT32_MAX THEN idx ELSE lv.head,
         tail |-> idx]]

\* An unlink that leaves the successor's prev pointing at the removed node.
unlink_from_level_stale_prev(s, lv, idx) ==
    [storage_ |->
        [k \in DOMAIN s |->
            IF k = idx THEN [s[k] EXCEPT !.prev = UINT32_MAX, !.next = UINT32_MAX]
            ELSE [s[k] EXCEPT
                    !.next = IF s[idx].prev /= UINT32_MAX /\ k = s[idx].prev
                               THEN s[idx].next ELSE @]],
     level |->
        [head |-> IF lv.head = idx THEN s[idx].next ELSE lv.head,
         tail |-> IF lv.tail = idx THEN s[idx].prev ELSE lv.tail]]

\* unlink_from_level (order_book.cpp:35-46) on storage s and level lv.
unlink_from_level(s, lv, idx) ==
    [storage_ |->
        [k \in DOMAIN s |->
            IF k = idx THEN [s[k] EXCEPT !.prev = UINT32_MAX, !.next = UINT32_MAX]
            ELSE [s[k] EXCEPT
                    !.next = IF s[idx].prev /= UINT32_MAX /\ k = s[idx].prev
                               THEN s[idx].next ELSE @,
                    !.prev = IF s[idx].next /= UINT32_MAX /\ k = s[idx].next
                               THEN s[idx].prev ELSE @]],
     level |->
        [head |-> IF lv.head = idx THEN s[idx].next ELSE lv.head,
         tail |-> IF lv.tail = idx THEN s[idx].prev ELSE lv.tail]]

\* The storage and the level of an append or unlink written back to the book.
with_level(b, side, price, r) ==
    set_level([b EXCEPT !.storage_ = r.storage_], side, price, r.level)

\* order_book.cpp:186-191: copy the order into the allocated slot.
fill_slot(b, idx, o) ==
    [b EXCEPT !.storage_[idx].order_id = o.order_id,
              !.storage_[idx].user_id = o.user_id,
              !.storage_[idx].side = IF o.side = Buy THEN 0 ELSE 1,
              !.storage_[idx].price = o.price,
              !.storage_[idx].quantity = o.quantity,
              !.storage_[idx].timestamp = o.ts_ns]

\* order_book.cpp:193-199: try_emplace the level and append the slot.
link_slot(b, idx, o) ==
    with_level(b, o.side, o.price,
        append_to_level(b.storage_,
            IF o.price \in DOMAIN side_map(b, o.side)
              THEN side_map(b, o.side)[o.price] ELSE PriceLevelInit,
            idx))

\* order_book.cpp:201: order_index_[o.order_id] = OrderRef{side, price, idx}.
index_slot(b, idx, o) ==
    [b EXCEPT !.order_index_ =
        Put(b.order_index_, o.order_id,
            [side |-> o.side, price |-> o.price, idx |-> idx])]

\* The part of add_to_book after pool_.allocate() returned a.
add_allocated(a, o) == index_slot(link_slot(fill_slot(a.b, a.idx, o), a.idx, o), a.idx, o)

\* add_to_book (order_book.cpp:182-202)
add_to_book(b, o) == add_allocated(allocate(b), o)

\* ------------------------------------------------------ matching engine
\* A matching run threads three things through the loops: the book, the
\* incoming order (whose quantity is decremented) and out_trades.

\* A buy that stops at a level priced exactly at its limit.
buy_stops_at_strict(ask_price, incoming) == ask_price >= incoming.price

\* order_book.cpp:211  `if (ask_price > incoming.price) break;`
buy_stops_at(ask_price, incoming) == ask_price > incoming.price

\* order_book.cpp:257  `if (bid_price < incoming.price) break;`
sell_stops_at(bid_price, incoming) == bid_price < incoming.price

\* The ask map iterated from the wrong end.
best_ask_reversed(asks) == MaxOf(DOMAIN asks)

\* order_book.cpp:209-210  `asks_.begin()`: the lowest ask price.
best_ask(asks) == MinOf(DOMAIN asks)

\* order_book.cpp:255-256  `bids_.begin()`: the highest bid price.
best_bid(bids) == MaxOf(DOMAIN bids)

\* A fill that always takes the whole resting quantity.
fill_qty_whole(incoming, resting) == resting.quantity

\* order_book.cpp:220 / 266  std::min(incoming.quantity, resting.quantity)
fill_qty(incoming, resting) ==
    IF incoming.quantity < resting.quantity
      THEN incoming.quantity ELSE resting.quantity

\* order_book.cpp:222-230: the Trade of an incoming buy against `resting`.
buy_trade(b, incoming, resting, ask_price, qty) ==
    [trade_id |-> b.next_trade_id_,
     buy_order_id |-> incoming.order_id,
     sell_order_id |-> resting.order_id,
     price |-> ask_price,
     quantity |-> qty,
     instrument_id |-> incoming.instrument_id,
     ts_ns |-> 0,
     buy_user_id |-> incoming.user_id,
     sell_user_id |-> resting.user_id]

\* A trade of an incoming sell priced at the incoming order's limit.
sell_trade_at_limit(b, incoming, resting, bid_price, qty) ==
    [trade_id |-> b.next_trade_id_,
     buy_order_id |-> resting.order_id,
     sell_order_id |-> incoming.order_id,
     price |-> incoming.price,
     quantity |-> qty,
     instrument_id |-> incoming.instrument_id,
     ts_ns |-> 0,
     buy_user_id |-> resting.user_id,
     sell_user_id |-> incoming.user_id]

\* order_book.cpp:268-276: the Trade of an incoming sell against `resting`.
sell_trade(b, incoming, resting, bid_price, qty) ==
    [trade_id |-> b.next_trade_id_,
     buy_order_id |-> resting.order_id,
     sell_order_id |-> incoming.order_id,
     price |-> bid_price,
     quantity |-> qty,
     instrument_id |-> incoming.instrument_id,
     ts_ns |-> 0,
     buy_user_id |-> resting.user_id,
     sell_user_id |-> incoming.user_id]

\* order_book.cpp:239 / 285: order_index_.erase(resting.order_id).
erase_index(b, order_id) ==
    [b EXCEPT !.order_index_ = Erase(b.order_index_, order_id)]

\* order_book.cpp:240 / 286: unlink_from_level(level, idx) on the level the
\* matching loop holds a reference to.
unlink_in_book(b, side, price, idx) ==
    with_level(b, side, price,
        unlink_from_level(b.storage_, side_map(b, side)[price], idx))

\* A filled order that is unlinked and released but stays in the index.
remove_filled_keep_index(b, side, price, idx) ==
    release(unlink_in_book(b, side, price, idx), idx)

\* order_book.cpp:238-242 / 284-288: a resting order that reached zero is
\* erased from the index, unlinked from its level and released.
remove_filled(b, side, price, idx) ==
    release(unlink_in_book(erase_index(b, b.storage_[idx].order_id),
                           side, price, idx), idx)

\* order_book.cpp:238 / 284: `if (resting.quantity == 0)`.
settle_resting(b, side, price, idx) ==
    IF b.storage_[idx].quantity = 0 THEN remove_filled(b, side, price, idx) ELSE b

\* order_book.cpp:220-242: one pass of the inner loop of match_buy, with
\* qty = std::min(incoming.quantity, resting.quantity).
buy_fill(st, ask_price, idx, qty) ==
    [b |-> settle_resting([st.b EXCEPT !.next_trade_id_ = @ + 1,
                                      !.storage_[idx].quantity = @ - qty],
                          Sell, ask_price, idx),
     incoming |-> [st.incoming EXCEPT !.quantity = @ - qty],
     out_trades |-> Append(st.out_trades,
                      buy_trade(st.b, st.incoming, st.b.storage_[idx], ask_price, qty))]

\* order_book.cpp:266-288: one pass of the inner loop of match_sell.
sell_fill(st, bid_price, idx, qty) ==
    [b |-> settle_resting([st.b EXCEPT !.next_trade_id_ = @ + 1,
                                      !.storage_[idx].quantity = @ - qty],
                          Buy, bid_price, idx),
     incoming |-> [st.incoming EXCEPT !.quantity = @ - qty],
     out_trades |-> Append(st.out_trades,
                      sell_trade(st.b, st.incoming, st.b.storage_[idx], bid_price, qty))]

\* inner loop of match_buy (order_book.cpp:216-245); `next` is read before
\* the pass can unlink the node.
RECURSIVE match_buy_level(_, _, _)
match_buy_level(st, ask_price, idx) ==
    IF ~(idx /= UINT32_MAX /\ st.incoming.quantity > 0) THEN st
    ELSE match_buy_level(
            buy_fill(st, ask_price, idx, fill_qty(st.incoming, st.b.storage_[idx])),
            ask_price, st.b.storage_[idx].next)

\* order_book.cpp:247-248 / 293-294: erase the level if the loop emptied it.
erase_if_empty(st, side, price) ==
    IF level_empty(side_map(st.b, side)[price])
      THEN [st EXCEPT !.b = erase_level(st.b, side, price)]
      ELSE st

\* order_book.cpp:213-248: the body of the outer loop for the best ask.
match_buy_at(st, ask_price) ==
    erase_if_empty(match_buy_level(st, ask_price, st.b.asks_[ask_price].head),
                   Sell, ask_price)

\* match_buy (order_book.cpp:207-250)
RECURSIVE match_buy(_)
match_buy(st) ==
    IF ~(st.incoming.quantity > 0 /\ DOMAIN st.b.asks_ /= {}) THEN st
    ELSE IF buy_stops_at(best_ask(st.b.asks_), st.incoming) THEN st
    ELSE match_buy(match_buy_at(st, best_ask(st.b.asks_)))

\* inner loop of match_sell (order_book.cpp:262-291)
RECURSIVE match_sell_level(_, _, _)
match_sell_level(st, bid_price, idx) ==
    IF ~(idx /= UINT32_MAX /\ st.incoming.quantity > 0) THEN st
    ELSE match_sell_level(
            sell_fill(st, bid_price, idx, fill_qty(st.incoming, st.b.storage_[idx])),
            bid_price, st.b.storage_[idx].next)

\* order_book.cpp:259-294: the body of the outer loop for the best bid.
match_sell_at(st, bid_price) ==
    erase_if_empty(match_sell_level(st, bid_price, st.b.bids_[bid_price].head),
                   Buy, bid_price)

\* match_sell (order_book.cpp:253-296)
RECURSIVE match_sell(_)
match_sell(st) ==
    IF ~(st.incoming.quantity > 0 /\ DOMAIN st.b.bids_ /= {}) THEN st
    ELSE IF sell_stops_at(best_bid(st.b.bids_), st.incoming) THEN st
    ELSE match_sell(match_sell_at(st, best_bid(st.b.bids_)))

\* ------------------------------------------------------------ public API
\* An id generator that hands out its current value without advancing.
assign_order_id_reused(st) ==
    IF st.incoming.order_id = 0
      THEN [st EXCEPT !.incoming.order_id = st.b.next_order_id_]
      ELSE st

\* order_book.cpp:58-59: allocate_order_id for an order that carries none.
assign_order_id(st) ==
    IF st.incoming.order_id = 0
      THEN [st EXCEPT !.incoming.order_id = st.b.next_order_id_,
                      !.b.next_order_id_ = @ + 1]
      ELSE st

\* order_book.cpp:60-61: allocate_timestamp for an order that carries none.
assign_timestamp(st) ==
    IF st.incoming.ts_ns = 0
      THEN [st EXCEPT !.incoming.ts_ns = st.b.next_timestamp_,
                      !.b.next_timestamp_ = @ + 1]
      ELSE st

\* order_book.cpp:57-61: the copy `incoming` with its id and timestamp.
assign_ids(b, order) ==
    assign_timestamp(assign_order_id([b |-> b, incoming |-> order, out_trades |-> <<>>]))

\* order_book.cpp:63-77 dispatch on the side.
match_incoming(st) ==
    IF st.incoming.side = Buy THEN match_buy(st) ELSE match_sell(st)

\* A submit that returns the assigned id whether or not the order rests.
rest_or_done_always_id(m) ==
    IF m.incoming.quantity > 0
      THEN IF m.b.free_list_ = <<>>
             THEN [b |-> m.b, ret |-> 0, out_trades |-> m.out_trades,
                   exhausted |-> TRUE]
             ELSE [b |-> add_to_book(m.b, m.incoming),
                   ret |-> m.incoming.order_id,
                   out_trades |-> m.out_trades, exhausted |-> FALSE]
      ELSE [b |-> m.b, ret |-> m.incoming.order_id, out_trades |-> m.out_trades,
            exhausted |-> FALSE]

\* A submit that rests the incoming order even when nothing is left of it.
rest_or_done_always(m) ==
    IF m.b.free_list_ = <<>>
      THEN [b |-> m.b, ret |-> 0, out_trades |-> m.out_trades, exhausted |-> TRUE]
      ELSE [b |-> add_to_book(m.b, m.incoming), ret |-> m.incoming.order_id,
            out_trades |-> m.out_trades, exhausted |-> FALSE]

\* order_book.cpp:65-69 / 72-76: rest the residual and return its id, or
\* return 0.  OrderPool::allocate asserts a free slot (order_pool.hpp:32);
\* a call on which the assertion would fail is reported as `exhausted`.
rest_or_done(m) ==
    IF m.incoming.quantity > 0
      THEN IF m.b.free_list_ = <<>>
             THEN [b |-> m.b, ret |-> 0, out_trades |-> m.out_trades,
                   exhausted |-> TRUE]
             ELSE [b |-> add_to_book(m.b, m.incoming),
                   ret |-> m.incoming.order_id,
                   out_trades |-> m.out_trades, exhausted |-> FALSE]
      ELSE [b |-> m.b, ret |-> 0, out_trades |-> m.out_trades,
            exhausted |-> FALSE]

\* A submit without the zero-quantity fast path.
submit_limit_order_no_fast_path(b, order) ==
    rest_or_done(match_incoming(assign_ids(b, order)))

\* submit_limit_order (order_book.cpp:50-78): returns the book, the return
\* value and out_trades.
submit_limit_order(b, order) ==
    IF order.quantity = 0
      THEN [b |-> b, ret |-> 0, out_trades |-> <<>>, exhausted |-> FALSE]
      ELSE rest_or_done(match_incoming(assign_ids(b, order)))

\* A cancel that leaves the emptied level in the map.
cancel_found_keep_level(b, ref) ==
    release(unlink_in_book(b, ref.side, ref.price, ref.idx), ref.idx)

\* order_book.cpp:91-93 / 97-100: unlink, release, erase the emptied level.
cancel_found(b, ref) ==
    erase_if_empty(
        [b |-> release(unlink_in_book(b, ref.side, ref.price, ref.idx), ref.idx)],
        ref.side, ref.price).b

\* A cancel that looks the level up in the map of the other side.
cancel_ref_wrong_side(b, order_id, ref) ==
    IF ref.price \notin DOMAIN side_map(b, IF ref.side = Buy THEN Sell ELSE Buy)
      THEN [b |-> erase_index(b, order_id), ret |-> FALSE]
      ELSE [b |-> cancel_found(erase_index(b, order_id), ref), ret |-> TRUE]

\* order_book.cpp:84-103: the index entry exists and has been copied to ref.
cancel_ref(b, order_id, ref) ==
    IF ref.price \notin DOMAIN side_map(b, ref.side)
      THEN [b |-> erase_index(b, order_id), ret |-> FALSE]
      ELSE [b |-> cancel_found(erase_index(b, order_id), ref), ret |-> TRUE]

\* cancel_order (order_book.cpp:81-104): returns the book and the result.
cancel_order(b, order_id) ==
    IF order_id \notin DOMAIN b.order_index_
      THEN [b |-> b, ret |-> FALSE]
      ELSE cancel_ref(b, order_id, b.order_index_[order_id])

\* A sum that stops after the first order of the level.
level_sum_head_only(s, idx) == IF idx = UINT32_MAX THEN 0 ELSE s[idx].quantity

\* Sum of the quantities linked from `idx` to the end of a level
\* (the while loops of order_book.cpp:117-122, 152-156).
RECURSIVE level_sum(_, _)
level_sum(s, idx) ==
    IF idx = UINT32_MAX THEN 0
    ELSE s[idx].quantity + level_sum(s, s[idx].next)

\* top_of_book (order_book.cpp:109-141)
top_of_book(b) ==
    [has_bid |-> DOMAIN b.bids_ /= {},
     has_ask |-> DOMAIN b.asks_ /= {},
     bid_price |-> IF DOMAIN b.bids_ /= {} THEN best_bid(b.bids_) ELSE 0,
     bid_quantity |-> IF DOMAIN b.bids_ /= {}
                        THEN level_sum(b.storage_, b.bids_[best_bid(b.bids_)].head)
                        ELSE 0,
     ask_price |-> IF DOMAIN b.asks_ /= {} THEN best_ask(b.asks_) ELSE 0,
     ask_quantity |-> IF DOMAIN b.asks_ /= {}
                        THEN level_sum(b.storage_, b.asks_[best_ask(b.asks_)].head)
                        ELSE 0]

\* One (price, aggregate) pair, emitted only `if (sum > 0)`.
snapshot_entry(price, sum) == IF sum > 0 THEN <<(<<price, sum>>)>> ELSE <<>>

\* snapshot_bids (order_book.cpp:145-160): map order is descending price.
RECURSIVE snapshot_bids_from(_, _)
snapshot_bids_from(b, keys) ==
    IF keys = {} THEN <<>>
    ELSE snapshot_entry(MaxOf(keys), level_sum(b.storage_, b.bids_[MaxOf(keys)].head))
         \o snapshot_bids_from(b, keys \ {MaxOf(keys)})

snapshot_bids(b) == snapshot_bids_from(b, DOMAIN b.bids_)

\* snapshot_asks (order_book.cpp:162-177): map order is ascending price.
RECURSIVE snapshot_asks_from(_, _)
snapshot_asks_from(b, keys) ==
    IF keys = {} THEN <<>>
    ELSE snapshot_entry(MinOf(keys), level_sum(b.storage_, b.asks_[MinOf(keys)].head))
         \o snapshot_asks_from(b, keys \ {MinOf(keys)})

snapshot_asks(b) == snapshot_asks_from(b, DOMAIN b.asks_)

\* ------------------------------------------------------- double arithmetic
\* The PnL engine and the mid price compute in IEEE doubles.  The model
\* computes with exact fractions [n, d] in lowest terms with d > 0: every
\* value the engine forms from integer ticks and quantities by +, -, * and
\* a halving is such a fraction.
RECURSIVE Gcd(_, _)
Gcd(a, b) == IF b = 0 THEN a ELSE Gcd(b, a % b)
Abs(i) == IF i < 0 THEN -i ELSE i
Reduce(n, d, g) == [n |-> (IF d < 0 THEN -n ELSE n) \div g, d |-> Abs(d) \div g]
Frac(n, d) == Reduce(n, d, Gcd(Abs(n), Abs(d)))
Dbl(i) == [n |-> i, d |-> 1]
Zero == Dbl(0)
Add(x, y) == Frac(x.n * y.d + y.n * x.d, x.d * y.d)
Neg(x) == [n |-> -x.n, d |-> x.d]
Sub(x, y) == Add(x, Neg(y))
Mul(x, y) == Frac(x.n * y.n, x.d * y.d)
Div(x, y) == Frac(x.n * y.d, x.d * y.n)
Less(x, y) == x.n * y.d < y.n * x.d
FAbs(x) == [n |-> Abs(x.n), d |-> x.d]
FMin(x, y) == IF Less(y, x) THEN y ELSE x

\* ------------------------------------------------------------- PnLEngine
\* PnLEngine::PnLEngine (pnl.cpp:6-12)
PnLEngineInit ==
    [position_ |-> Zero, avg_price_ |-> Zero, realized_pnl_ |-> Zero,
     unrealized_pnl_ |-> Zero, last_mid_ |-> Zero]

\* pnl.cpp:21: the quantity that closes the existing position.
close_qty(p, signed_qty) == FMin(FAbs(p.position_), FAbs(signed_qty))

\* Realized PnL computed as if every closed position were a long.
realize_as_long(p, price, close) ==
    [p EXCEPT !.realized_pnl_ = Add(@, Mul(Sub(price, p.avg_price_), close))]

\* pnl.cpp:24-30: realized PnL of the closed portion.
realize(p, price, close) ==
    IF Less(Zero, p.position_)
      THEN [p EXCEPT !.realized_pnl_ = Add(@, Mul(Sub(price, p.avg_price_), close))]
      ELSE [p EXCEPT !.realized_pnl_ = Add(@, Mul(Sub(p.avg_price_, price), close))]

\* pnl.cpp:32-34: what is left of signed_qty after closing.
remaining_signed(signed_qty, close) ==
    IF Less(close, FAbs(signed_qty))
      THEN (IF Less(Zero, signed_qty) THEN Sub(signed_qty, close)
                                      ELSE Add(signed_qty, close))
      ELSE Zero

\* A closing that leaves avg_price_ as it was when the position reaches zero.
reduce_position_keep_avg(p, close) ==
    IF ~Less(close, FAbs(p.position_))
      THEN [p EXCEPT !.position_ = Zero]
      ELSE IF Less(Zero, p.position_)
             THEN [p EXCEPT !.position_ = Sub(@, close)]
             ELSE [p EXCEPT !.position_ = Add(@, close)]

\* pnl.cpp:36-43: the position after closing.
reduce_position(p, close) ==
    IF ~Less(close, FAbs(p.position_))
      THEN [p EXCEPT !.position_ = Zero, !.avg_price_ = Zero]
      ELSE IF Less(Zero, p.position_)
             THEN [p EXCEPT !.position_ = Sub(@, close)]
             ELSE [p EXCEPT !.position_ = Add(@, close)]

\* pnl.cpp:19-44: the closing branch; st = [p, signed_qty].
on_trade_close(st, price) ==
    IF st.p.position_ /= Zero /\ Less(Mul(st.p.position_, st.signed_qty), Zero)
      THEN [p |-> reduce_position(realize(st.p, price, close_qty(st.p, st.signed_qty)),
                                  close_qty(st.p, st.signed_qty)),
            signed_qty |-> remaining_signed(st.signed_qty,
                                            close_qty(st.p, st.signed_qty))]
      ELSE st

\* pnl.cpp:53-56: the new VWAP of a position that grows.
grow_position(p, price, signed_qty) ==
    [p EXCEPT !.avg_price_ =
                  Div(Add(Mul(p.avg_price_, FAbs(p.position_)),
                          Mul(price, FAbs(signed_qty))),
                      FAbs(Add(p.position_, signed_qty))),
              !.position_ = Add(p.position_, signed_qty)]

\* pnl.cpp:57-61: the branch the source calls unlikely.
absorb_position(p, signed_qty) ==
    IF Add(p.position_, signed_qty) = Zero
      THEN [p EXCEPT !.position_ = Zero, !.avg_price_ = Zero]
      ELSE [p EXCEPT !.position_ = Add(p.position_, signed_qty)]

\* pnl.cpp:47-62: the opening / growing branch.
on_trade_open(st, price) ==
    IF st.signed_qty = Zero THEN st.p
    ELSE IF st.p.position_ = Zero
      THEN [st.p EXCEPT !.avg_price_ = price, !.position_ = st.signed_qty]
    ELSE IF (Less(Zero, st.p.position_) /\ Less(Zero, st.signed_qty))
             \/ (Less(st.p.position_, Zero) /\ Less(st.signed_qty, Zero))
      THEN grow_position(st.p, price, st.signed_qty)
      ELSE absorb_position(st.p, st.signed_qty)

\* The mark of position_ against last_mid_ (pnl.cpp:66-67, 76-79).
mark(p) ==
    IF Less(Zero, p.position_)
      THEN Mul(Sub(p.last_mid_, p.avg_price_), FAbs(p.position_))
      ELSE Mul(Sub(p.avg_price_, p.last_mid_), FAbs(p.position_))

\* pnl.cpp:65-68: unrealized is refreshed only once a mid has been seen.
on_trade_mark(p) ==
    IF Less(Zero, p.last_mid_) THEN [p EXCEPT !.unrealized_pnl_ = mark(p)] ELSE p

\* PnLEngine::on_trade (pnl.cpp:14-69); price is a double, qty a uint64.
on_trade(p, user_is_buy, price, qty) ==
    on_trade_mark(
        on_trade_open(
            on_trade_close([p |-> p,
                            signed_qty |-> IF user_is_buy THEN Dbl(qty) ELSE Dbl(-qty)],
                           price),
            price))

\* The unrealized PnL on_midprice stores once last_mid_ is set.
remark(p) ==
    [p EXCEPT !.unrealized_pnl_ = IF p.position_ = Zero THEN Zero ELSE mark(p)]

\* PnLEngine::on_midprice (pnl.cpp:71-81)
on_midprice(p, mid) == remark([p EXCEPT !.last_mid_ = mid])

\* A snapshot whose equity leaves the unrealized part out.
get_realized_equity(p) ==
    [user_id |-> 0, realized |-> p.realized_pnl_, unrealized |-> p.unrealized_pnl_,
     position |-> p.position_, avg_price |-> p.avg_price_,
     equity |-> p.realized_pnl_]

\* PnLEngine::get (pnl.cpp:83-92); user_id keeps its default 0.
get(p) ==
    [user_id |-> 0, realized |-> p.realized_pnl_, unrealized |-> p.unrealized_pnl_,
     position |-> p.position_, avg_price |-> p.avg_price_,
     equity |-> Add(p.realized_pnl_, p.unrealized_pnl_)]

\* -------------------------------------------------------- MatchingServer
\* MsgType (messages.hpp:8-16)
NEW_ORDER == 1
CANCEL == 2
TRADE == 3
ACK == 4
TOB == 5
L2_UPDATE == 6
PNL_UPDATE == 7

\* server.cpp:15 and server.cpp:55
tracked_user_id_ == 1
BS_BOT_USER_ID == 9999

\* SPSCQueue::SPSCQueue (order_pool.hpp:75-78): the least power of two that
\* is no less than the requested capacity.
RECURSIVE round_up(_, _)
round_up(cap, capacity) == IF cap < capacity THEN round_up(2 * cap, capacity) ELSE cap
capacity_(capacity) == round_up(1, capacity)

\* The ring keeps one slot free: push fails when (head + 1) & mask == tail
\* (order_pool.hpp:92-96), that is with capacity_ - 1 items queued.
queue_full(q, capacity) == Len(q) = capacity_(capacity) - 1

\* SPSCQueue::push on the queue as the sequence of its items, oldest first;
\* log records every item offered and whether push returned true.
push(st, item, capacity) ==
    IF queue_full(st.queue, capacity)
      THEN [st EXCEPT !.log = Append(@, [msg |-> item, pushed |-> FALSE])]
      ELSE [queue |-> Append(st.queue, item),
            log |-> Append(st.log, [msg |-> item, pushed |-> TRUE])]

\* out_queue_.push for each message of one input, in the order of the calls.
RECURSIVE push_all(_, _, _)
push_all(st, msgs, capacity) ==
    IF msgs = <<>> THEN st
    ELSE push_all(push(st, Head(msgs), capacity), Tail(msgs), capacity)

\* server.cpp:107-115: the Order the engine builds from a NEW_ORDER message.
make_order(cm) ==
    [order_id |-> 0, user_id |-> cm.user_id,
     side |-> IF cm.side = 0 THEN Buy ELSE Sell,
     price |-> cm.price, quantity |-> cm.quantity, ts_ns |-> 0,
     instrument_id |-> cm.instrument_id]

\* The engine's own state while one message is processed, with `out` the
\* messages handed to out_queue_.push so far.
\* server.cpp:120-122: remember who owns the order that rested.
note_resting(es, cm, assigned_id) ==
    IF assigned_id /= 0
      THEN [es EXCEPT !.order_user_ = Put(es.order_user_, assigned_id, cm.user_id)]
      ELSE es

\* server.cpp:127-167 for one user U: the side of the incoming order, then
\* the owner of buy_order_id, then the owner of sell_order_id.
role_of(U, cm, tr, order_user) ==
    LET buy0  == cm.user_id = U /\ cm.side = 0
        sell0 == cm.user_id = U /\ cm.side /= 0
        hitB  == tr.buy_order_id \in DOMAIN order_user
                    /\ order_user[tr.buy_order_id] = U
        hitS  == tr.sell_order_id \in DOMAIN order_user
                    /\ order_user[tr.sell_order_id] = U
        buy1  == hitB \/ buy0
        sell1 == ~hitB /\ sell0
    IN [is_buy |-> ~hitS /\ buy1, is_sell |-> hitS \/ sell1]

\* server.cpp:172-178 / 184-190: the PNL_UPDATE built from a snapshot.
pnl_message(p, user_id) ==
    [type |-> PNL_UPDATE, pnl |-> [get(p) EXCEPT !.user_id = user_id]]

\* server.cpp:170-179: PnL of the tracked user for one trade.
attribute_user(es, tr, role) ==
    IF role.is_buy \/ role.is_sell
      THEN [es EXCEPT
              !.pnl_ = on_trade(es.pnl_, role.is_buy, Dbl(tr.price), tr.quantity),
              !.out = Append(@, pnl_message(
                          on_trade(es.pnl_, role.is_buy, Dbl(tr.price), tr.quantity),
                          tracked_user_id_))]
      ELSE es

\* server.cpp:182-191: PnL of the bot for one trade.
attribute_bot(es, tr, role) ==
    IF role.is_buy \/ role.is_sell
      THEN [es EXCEPT
              !.bs_pnl_ = on_trade(es.bs_pnl_, role.is_buy, Dbl(tr.price), tr.quantity),
              !.out = Append(@, pnl_message(
                          on_trade(es.bs_pnl_, role.is_buy, Dbl(tr.price), tr.quantity),
                          BS_BOT_USER_ID))]
      ELSE es

\* server.cpp:125-192, one pass of the loop over the trades.
attribute_trade(es, cm, tr) ==
    attribute_bot(
        attribute_user(es, tr, role_of(tracked_user_id_, cm, tr, es.order_user_)),
        tr, role_of(BS_BOT_USER_ID, cm, tr, es.order_user_))

RECURSIVE attribute_trades(_, _, _)
attribute_trades(es, cm, trades) ==
    IF trades = <<>> THEN es
    ELSE attribute_trades(attribute_trade(es, cm, Head(trades)), cm, Tail(trades))

\* emit_trades (server.cpp:57-71)
emit_trades(es, trades) ==
    [es EXCEPT !.out = @ \o [i \in DOMAIN trades |->
                                [type |-> TRADE, trade |-> trades[i]]]]

\* An ACK whose status is OK whatever the handler reported.
emit_ack_always_ok(es, type, order_id, ok) ==
    [es EXCEPT !.out = Append(@, [type |-> ACK,
                                  ack |-> [status |-> 0,
                                           type |-> type,
                                           order_id |-> order_id]])]

\* emit_ack (server.cpp:73-81)
emit_ack(es, type, order_id, ok) ==
    [es EXCEPT !.out = Append(@, [type |-> ACK,
                                  ack |-> [status |-> IF ok THEN 0 ELSE 1,
                                           type |-> type,
                                           order_id |-> order_id]])]

\* server.cpp:198-200: a cancelled order no longer has an owner.
forget_cancelled(es, cm, ok) ==
    IF ok THEN [es EXCEPT !.order_user_ = Erase(es.order_user_, cm.order_id)]
    ELSE es

\* A comparison that looks at the flags and the prices only.
tob_changed_prices_only(es, tob) ==
    IF ~es.have_last_tob THEN TRUE
    ELSE \/ tob.has_bid /= es.last_tob.has_bid
         \/ tob.has_ask /= es.last_tob.has_ask
         \/ tob.bid_price /= es.last_tob.bid_price
         \/ tob.ask_price /= es.last_tob.ask_price

\* server.cpp:207-220
tob_changed(es, tob) ==
    IF ~es.have_last_tob THEN TRUE
    ELSE \/ tob.has_bid /= es.last_tob.has_bid
         \/ tob.has_ask /= es.last_tob.has_ask
         \/ tob.bid_price /= es.last_tob.bid_price
         \/ tob.bid_quantity /= es.last_tob.bid_quantity
         \/ tob.ask_price /= es.last_tob.ask_price
         \/ tob.ask_quantity /= es.last_tob.ask_quantity

\* server.cpp:224-229: the TOB message; has_bid and has_ask of the message
\* keep their defaults (messages.hpp:72-73).
tob_message(tob) ==
    [type |-> TOB,
     tob |-> [has_bid |-> FALSE, has_ask |-> FALSE,
              bid_price |-> IF tob.has_bid THEN tob.bid_price ELSE 0,
              bid_quantity |-> IF tob.has_bid THEN tob.bid_quantity ELSE 0,
              ask_price |-> IF tob.has_ask THEN tob.ask_price ELSE 0,
              ask_quantity |-> IF tob.has_ask THEN tob.ask_quantity ELSE 0]]

\* server.cpp:233-240: the mid price.
mid_price(tob) ==
    IF tob.has_bid /\ tob.has_ask
      THEN Mul(Frac(1, 2), Add(Dbl(tob.bid_price), Dbl(tob.ask_price)))
    ELSE IF tob.has_bid THEN Dbl(tob.bid_price)
    ELSE IF tob.has_ask THEN Dbl(tob.ask_price)
    ELSE Zero

\* server.cpp:242-262: both PnL engines are marked to the mid.
emit_mid_pnl(es, mid) ==
    IF Less(Zero, mid)
      THEN [es EXCEPT
              !.pnl_ = on_midprice(es.pnl_, mid),
              !.bs_pnl_ = on_midprice(es.bs_pnl_, mid),
              !.out = @ \o <<pnl_message(on_midprice(es.pnl_, mid), tracked_user_id_),
                             pnl_message(on_midprice(es.bs_pnl_, mid), BS_BOT_USER_ID)>>]
      ELSE es

\* server.cpp:206-263: the top of book and the PnL it drives.
emit_tob(es, tob) ==
    IF tob_changed(es, tob)
      THEN emit_mid_pnl([es EXCEPT !.have_last_tob = TRUE,
                                   !.last_tob = tob,
                                   !.out = Append(@, tob_message(tob))],
                        mid_price(tob))
      ELSE es

\* A snapshot as the map diff_side builds from it (server.cpp:273-276).
snapshot_map(snapshot) ==
    [p \in {snapshot[i][1] : i \in DOMAIN snapshot} |->
        (CHOOSE e \in {snapshot[i] : i \in DOMAIN snapshot} : e[1] = p)[2]]

\* server.cpp:284-285
quantity_in(map, price) == IF price \in DOMAIN map THEN map[price] ELSE 0

\* A diff that reports the quantity the level had before.
diff_maps_old_quantity(prev_map, new_map, side_flag) ==
    {[type |-> L2_UPDATE,
      l2 |-> [side |-> side_flag, price |-> price,
              quantity |-> quantity_in(prev_map, price)]] :
        price \in {q \in DOMAIN prev_map \cup DOMAIN new_map :
                        quantity_in(prev_map, q) /= quantity_in(new_map, q)}}

\* diff_side (server.cpp:270-295): the L2_UPDATE messages of one side; the
\* loop runs over an unordered_map, so they are a set here.
diff_maps(prev_map, new_map, side_flag) ==
    {[type |-> L2_UPDATE,
      l2 |-> [side |-> side_flag, price |-> price,
              quantity |-> quantity_in(new_map, price)]] :
        price \in {q \in DOMAIN prev_map \cup DOMAIN new_map :
                        quantity_in(prev_map, q) /= quantity_in(new_map, q)}}

diff_side(before, after, side_flag) ==
    diff_maps(snapshot_map(before), snapshot_map(after), side_flag)

\* The orders in which the loop of server.cpp:282 can visit a set.
Orderings(S) ==
    {f \in [1..Cardinality(S) -> S] : \A i, j \in DOMAIN f : f[i] = f[j] => i = j}

\* An engine that acknowledges the order before it emits the trades.
new_order_outputs_ack_first(es, cm, r) ==
    emit_tob(
        emit_trades(
            emit_ack(
                attribute_trades(note_resting(es, cm, r.ret), cm, r.out_trades),
                NEW_ORDER, r.ret, TRUE),
            r.out_trades),
        top_of_book(r.b))

\* server.cpp:117-195: what a NEW_ORDER leaves in the engine, given the
\* result r of submit_limit_order.
new_order_outputs(es, cm, r) ==
    emit_tob(
        emit_ack(
            emit_trades(
                attribute_trades(note_resting(es, cm, r.ret), cm, r.out_trades),
                r.out_trades),
            NEW_ORDER, r.ret, TRUE),
        top_of_book(r.b))

\* A CANCEL handler whose ACK does not carry the requested id.
cancel_outputs_no_id(es, cm, r) ==
    emit_tob(emit_ack(forget_cancelled(es, cm, r.ret), CANCEL, 0, r.ret),
             top_of_book(r.b))

\* server.cpp:197-201: what a CANCEL leaves in the engine, given the result
\* r of cancel_order.
cancel_outputs(es, cm, r) ==
    emit_tob(emit_ack(forget_cancelled(es, cm, r.ret), CANCEL, cm.order_id, r.ret),
             top_of_book(r.b))

\* ---------------------------------------------------------- state machine
\* Orders a caller of the public API can pass (messages.hpp:28-37).  The
\* timestamp is always left to the book, as the only caller does.
Orders ==
    [order_id : 0..MaxSuppliedId, user_id : Users, side : {Buy, Sell},
     price : Prices, quantity : Quantities, ts_ns : {0},
     instrument_id : {1}]

\* Orders as the engine builds them from a NEW_ORDER message
\* (server.cpp:107-115): id and timestamp are left to the book.
EngineOrders == {o \in Orders : o.order_id = 0 /\ o.ts_ns = 0}

\* Ids a CANCEL can name; 0 is an id the book never issues.
CancelIds == 0..(IF MaxTimestamp > MaxSuppliedId THEN MaxTimestamp ELSE MaxSuppliedId)

NoOrder ==
    [order_id |-> 0, user_id |-> 0, side |-> Buy, price |-> 0, quantity |-> 0,
     ts_ns |-> 0, instrument_id |-> 0]

NoCall ==
    [op |-> "none", order |-> NoOrder, order_id |-> 0, ret_id |-> 0,
     ret_ok |-> FALSE, out_trades |-> <<>>]

NoTob ==
    [has_bid |-> FALSE, has_ask |-> FALSE, bid_price |-> 0, bid_quantity |-> 0,
     ask_price |-> 0, ask_quantity |-> 0]

NoRoundTrip ==
    [stage |-> "none", id |-> 0, bids |-> <<>>, asks |-> <<>>, tob |-> NoTob]

\* A value-initialised ClientMessage (server.cpp:37, 44).
NoNewOrder ==
    [user_id |-> 0, side |-> 0, price |-> 0, quantity |-> 0, instrument_id |-> 0]
NoCancel == [user_id |-> 0, order_id |-> 0]
NoClientMessage == [type |-> 0, new_order |-> NoNewOrder, cancel |-> NoCancel]

\* The state of the client (part_003:16-24): the levels of each side as a
\* list of price and quantity, and bidPrice, bidQty, askPrice, askQty of the
\* last top of book it was told, zeros at first.
UiInit == [bids |-> <<>>, asks |-> <<>>, tob |-> <<0, 0, 0, 0>>]

\* OrderBook::OrderBook and OrderPool::OrderPool (order_book.cpp:7-10,
\* order_book.hpp:67-69, order_pool.hpp:24-29); MatchingServer::MatchingServer
\* (server.cpp:10-18) and the locals of engine_loop (server.cpp:84-85);
\* a NetworkServer with no client yet (network_server.hpp:29-35).
InitServer ==
    /\ bids_ = <<>>
    /\ asks_ = <<>>
    /\ order_index_ = <<>>
    /\ next_order_id_ = 1
    /\ next_trade_id_ = 1
    /\ next_timestamp_ = 1
    /\ storage_ = [i \in PoolIdx |-> PoolOrderInit]
    /\ free_list_ = [i \in 1..PoolCapacity |-> PoolCapacity - i]
    /\ lastCall = NoCall
    /\ roundTrip = NoRoundTrip
    /\ order_user_ = <<>>
    /\ pnl_ = PnLEngineInit
    /\ bs_pnl_ = PnLEngineInit
    /\ last_tob = NoTob
    /\ have_last_tob = FALSE
    /\ out_queue_ = <<>>
    /\ processed = [cm |-> NoClientMessage, log |-> <<>>]
    /\ popped = 0
    /\ stream = [trade_ids |-> {}, order_ids |-> {}, tob |-> <<>>, ui |-> UiInit,
                 net |-> [U \in {tracked_user_id_, BS_BOT_USER_ID} |-> 0]]
    /\ running_ = FALSE
    /\ loop = [pc |-> "none", processed |-> 0]
    /\ stopping = [pc |-> "none", since |-> 0]
    /\ clients_ = <<>>
    /\ to_remove = <<>>
    /\ run_loop = "select"

\* The engine thread on its own: no queue is looked at step by step.
Init ==
    /\ InitServer
    /\ rings = <<>>
    /\ threads = <<>>
    /\ history = <<>>

SetBook(b) ==
    /\ bids_' = b.bids_
    /\ asks_' = b.asks_
    /\ order_index_' = b.order_index_
    /\ next_order_id_' = b.next_order_id_
    /\ next_trade_id_' = b.next_trade_id_
    /\ next_timestamp_' = b.next_timestamp_
    /\ storage_' = b.storage_
    /\ free_list_' = b.free_list_

\* What a call of submit_limit_order that returned r leaves behind.  The pool
\* never runs dry in the source (one billion slots, order_book.cpp:9); the
\* model only takes the calls its small pool can serve.
SubmitReturns(o, r) ==
    /\ ~r.exhausted
    /\ r.b.next_timestamp_ <= MaxTimestamp + 1
    /\ SetBook(r.b)
    /\ lastCall' = [op |-> "submit", order |-> o, order_id |-> 0,
                    ret_id |-> r.ret, ret_ok |-> FALSE,
                    out_trades |-> r.out_trades]
    /\ roundTrip' = IF r.ret /= 0 /\ r.out_trades = <<>>
                      THEN [stage |-> "submitted", id |-> r.ret,
                            bids |-> snapshot_bids(Book),
                            asks |-> snapshot_asks(Book),
                            tob |-> top_of_book(Book)]
                      ELSE NoRoundTrip

\* One call of submit_limit_order.
Submit(o) ==
    /\ SubmitReturns(o, submit_limit_order(Book, o))
    /\ UNCHANGED <<netVars, engineVars, queueVars, lifeVars>>

\* What a call of cancel_order that returned r leaves behind.
CancelReturns(id, r) ==
    /\ SetBook(r.b)
    /\ lastCall' = [op |-> "cancel", order |-> NoOrder, order_id |-> id,
                    ret_id |-> 0, ret_ok |-> r.ret, out_trades |-> <<>>]
    /\ roundTrip' = IF roundTrip.stage = "submitted" /\ roundTrip.id = id
                      THEN [roundTrip EXCEPT !.stage = "cancelled"]
                      ELSE NoRoundTrip

\* One call of cancel_order.
Cancel(id) ==
    /\ CancelReturns(id, cancel_order(Book, id))
    /\ UNCHANGED <<netVars, engineVars, queueVars, lifeVars>>

SubmitAssigned == \E o \in EngineOrders : Submit(o)
SubmitAny == \E o \in Orders : Submit(o)
CancelAny == \E id \in CancelIds : Cancel(id)

\* The program: the engine is the only caller of the book, and every order
\* it submits gets its id from the book (server.cpp:108, 117, 197).
Next == SubmitAssigned \/ CancelAny
Spec == Init /\ [][Next]_vars

\* Any caller of the public API, including caller-supplied order ids.
NextSupplied == SubmitAny \/ CancelAny
SpecSupplied == Init /\ [][NextSupplied]_vars

\* ------------------------------------------------------- the engine loop
\* Users that send orders in the program: the market simulator (user 0,
\* market_sim.cpp:48), the tracked UI user and the bot.
NewOrderUsers == {0, tracked_user_id_, BS_BOT_USER_ID}

\* MsgNewOrder (messages.hpp:20-26) as the producers fill it.
NewOrderMsgs ==
    [user_id : NewOrderUsers, side : {0, 1}, price : Prices,
     quantity : Quantities, instrument_id : {0}]

\* MsgCancel (messages.hpp:39-42)
CancelMsgs == [user_id : {0}, order_id : CancelIds]

\* submit_new_order / submit_cancel (server.cpp:36-48)
ClientNewOrder(m) == [type |-> NEW_ORDER, new_order |-> m, cancel |-> NoCancel]
ClientCancel(m) == [type |-> CANCEL, new_order |-> NoNewOrder, cancel |-> m]

EngineState ==
    [order_user_ |-> order_user_, pnl_ |-> pnl_, bs_pnl_ |-> bs_pnl_,
     last_tob |-> last_tob, have_last_tob |-> have_last_tob, out |-> <<>>]

\* The ids in the messages handed to push for one input message.
TradeIdsOf(out) == {out[i].trade.trade_id : i \in {j \in DOMAIN out : out[j].type = TRADE}}
OrderIdsOf(out) ==
    {out[i].ack.order_id :
        i \in {j \in DOMAIN out : /\ out[j].type = ACK
                                  /\ out[j].ack.type = NEW_ORDER
                                  /\ out[j].ack.order_id /= 0}}

\* ------------------------------------------------ the client of the stream
\* Array.prototype.sort with the comparator of part_003:189, which is stable:
\* lvl goes behind every level that does not have to come after it.
RECURSIVE insert_level(_, _, _)
insert_level(sorted, lvl, isBid) ==
    IF sorted = <<>> THEN <<lvl>>
    ELSE IF (IF isBid THEN Head(sorted).price < lvl.price
                      ELSE Head(sorted).price > lvl.price)
      THEN <<lvl>> \o sorted
      ELSE <<Head(sorted)>> \o insert_level(Tail(sorted), lvl, isBid)

RECURSIVE sort_levels(_, _)
sort_levels(levels, isBid) ==
    IF levels = <<>> THEN <<>>
    ELSE insert_level(sort_levels(SubSeq(levels, 1, Len(levels) - 1), isBid),
                      levels[Len(levels)], isBid)

\* part_003:175-181: the level at the price is replaced.
replace_level(levels, p, q) ==
    [i \in DOMAIN levels |->
        IF levels[i].price = p THEN [price |-> p, quantity |-> q] ELSE levels[i]]

\* part_003:183-185: a price not found is pushed when its quantity is above 0.
push_level(levels, next, p, q) ==
    IF (\A i \in DOMAIN levels : levels[i].price /= p) /\ q > 0
      THEN Append(next, [price |-> p, quantity |-> q])
      ELSE next

\* part_003:187: levels without quantity are filtered out.
HasQuantity(lvl) == lvl.quantity > 0

\* An update that keeps the levels whose quantity fell to 0.
updateBookSide_keep_empty(levels, price, quantity, isBid) ==
    sort_levels(push_level(levels, replace_level(levels, price, quantity),
                           price, quantity),
                isBid)

\* updateBookSide (part_003:170-191)
updateBookSide(levels, price, quantity, isBid) ==
    sort_levels(SelectSeq(push_level(levels, replace_level(levels, price, quantity),
                                     price, quantity),
                          HasQuantity),
                isBid)

\* handleServerMessage (part_003:103-119) for the messages that touch the
\* book: a TOB replaces the remembered one, an L2_UPDATE updates its side.
handleServerMessage(ui, msg) ==
    IF msg.type = TOB
      THEN [ui EXCEPT !.tob = <<msg.tob.bid_price, msg.tob.bid_quantity,
                                msg.tob.ask_price, msg.tob.ask_quantity>>]
    ELSE IF msg.type = L2_UPDATE
      THEN IF msg.l2.side = 0
             THEN [ui EXCEPT !.bids = updateBookSide(ui.bids, msg.l2.price,
                                                     msg.l2.quantity, TRUE)]
             ELSE [ui EXCEPT !.asks = updateBookSide(ui.asks, msg.l2.price,
                                                     msg.l2.quantity, FALSE)]
    ELSE ui

\* The client after the messages msgs, handled in their order.
RECURSIVE handle_all(_, _)
handle_all(ui, msgs) ==
    IF msgs = <<>> THEN ui
    ELSE handle_all(handleServerMessage(ui, Head(msgs)), Tail(msgs))

\* What user U bought less what it sold in the TRADE messages among out,
\* by the buy_user_id and sell_user_id the book wrote into them
\* (order_book.cpp:229-230, 275-276).
RECURSIVE NetBought(_, _)
NetBought(U, out) ==
    IF out = <<>> THEN 0
    ELSE (IF Head(out).type = TRADE
            THEN (IF Head(out).trade.buy_user_id = U THEN Head(out).trade.quantity ELSE 0)
                 - (IF Head(out).trade.sell_user_id = U THEN Head(out).trade.quantity ELSE 0)
            ELSE 0)
         + NetBought(U, Tail(out))

\* The engine's state after one message: es from the handlers, pushed from
\* the calls of out_queue_.push.
EngineCommit(cm, es, out, pushed) ==
    /\ popped' = popped + 1
    /\ order_user_' = es.order_user_
    /\ pnl_' = es.pnl_
    /\ bs_pnl_' = es.bs_pnl_
    /\ last_tob' = es.last_tob
    /\ have_last_tob' = es.have_last_tob
    /\ out_queue_' = pushed.queue
    /\ processed' = [cm |-> cm, log |-> pushed.log]
    /\ stream' = [trade_ids |-> stream.trade_ids \cup TradeIdsOf(out),
                  order_ids |-> stream.order_ids \cup OrderIdsOf(out),
                  tob |-> IF \E i \in DOMAIN out : out[i].type = TOB
                            THEN <<top_of_book(Book)'>>
                            ELSE stream.tob,
                  ui |-> handle_all(stream.ui, out),
                  net |-> [U \in DOMAIN stream.net |-> stream.net[U] + NetBought(U, out)]]
    /\ UNCHANGED <<netVars, queueVars, lifeVars>>

EnginePushes(cm, es, out) ==
    \E pushed \in {push_all([queue |-> out_queue_, log |-> <<>>], out, OutCapacity)} :
        EngineCommit(cm, es, out, pushed)

\* server.cpp:266-298: the L2 diffs of both sides, bids first, follow the
\* outputs of the handlers.
EngineEmits(cm, es, bid_diffs, ask_diffs) ==
    \E lb \in Orderings(bid_diffs), la \in Orderings(ask_diffs) :
        EnginePushes(cm, es, es.out \o lb \o la)

\* One pass of the loop of server.cpp:93-299 for a NEW_ORDER, given the
\* result r of submit_limit_order.
ProcessNewOrder(cm, r) ==
    /\ SubmitReturns(make_order(cm.new_order), r)
    /\ \E es \in {new_order_outputs(EngineState, cm.new_order, r)} :
          EngineEmits(cm, es,
                      diff_side(snapshot_bids(Book), snapshot_bids(r.b), 0),
                      diff_side(snapshot_asks(Book), snapshot_asks(r.b), 1))

\* One pass of the loop of server.cpp:93-299 for a CANCEL, given the result
\* r of cancel_order.
ProcessCancel(cm, r) ==
    /\ CancelReturns(cm.cancel.order_id, r)
    /\ \E es \in {cancel_outputs(EngineState, cm.cancel, r)} :
          EngineEmits(cm, es,
                      diff_side(snapshot_bids(Book), snapshot_bids(r.b), 0),
                      diff_side(snapshot_asks(Book), snapshot_asks(r.b), 1))

EngineNewOrder ==
    /\ popped < MaxMessages
    /\ \E m \in NewOrderMsgs :
        \E r \in {submit_limit_order(Book, make_order(m))} :
            ProcessNewOrder(ClientNewOrder(m), r)

EngineCancel ==
    /\ popped < MaxMessages
    /\ \E m \in CancelMsgs :
        \E r \in {cancel_order(Book, m.order_id)} :
            ProcessCancel(ClientCancel(m), r)

\* get_next_server_message (server.cpp:50-52): the consumer pops one item.
Consume ==
    /\ out_queue_ /= <<>>
    /\ out_queue_' = Tail(out_queue_)
    /\ UNCHANGED <<netVars, bookVars, lastCall, roundTrip, order_user_, pnl_, bs_pnl_,
                   last_tob, have_last_tob, processed, popped, stream, queueVars,
                   lifeVars>>

\* The engine thread and the consumer of its output queue.
NextEngine == EngineNewOrder \/ EngineCancel \/ Consume
SpecEngine == Init /\ [][NextEngine]_vars

\* ------------------------------------------- SPSCQueue, one access a step
\* The capacity requested for the queue and the number of items offered to it.
QueueCapacity == 3
MaxItems == 6

\* A slot of buffer_ nobody has written: a value-initialised T.
NoItem == 0

\* SPSCQueue::SPSCQueue (order_pool.hpp:75-83)
SPSCQueue(capacity) ==
    [capacity_ |-> capacity_(capacity),
     mask_ |-> capacity_(capacity) - 1,
     buffer_ |-> [i \in 0..(capacity_(capacity) - 1) |-> NoItem],
     head_ |-> 0, tail_ |-> 0, head_cached_ |-> 0, tail_cached_ |-> 0]

\* (i + 1) & mask_, capacity_ being a power of two (order_pool.hpp:92, 99, 114).
next_index(q, i) == (i + 1) % (q.mask_ + 1)

\* A thread that has called neither push nor pop yet.  pc is the line of
\* order_pool.hpp it is about to execute, head, tail and item are the locals
\* of the call, got says whether a pop has ever returned true to it.
Idle ==
    [pc |-> "idle", queue |-> "", item |-> NoItem, head |-> 0, tail |-> 0,
     got |-> FALSE]

\* The thread after push or pop has returned; `item` is what pop handed out.
Returned(th, item) ==
    [th EXCEPT !.pc = "idle", !.item = item, !.head = 0, !.tail = 0]

\* A queue that never reports that it is full.
push_is_full_never(q, head, tail) == FALSE

\* order_pool.hpp:92, 94: the slot after head is the one the consumer is at.
push_is_full(q, head, tail) == next_index(q, head) = tail

\* order_pool.hpp:107, 109
pop_is_empty(q, head, tail) == tail = head

\* order_pool.hpp:90: auto head = head_.load(relaxed)
push_load_head(q, th, queue, item) ==
    [th EXCEPT !.pc = "push_91", !.queue = queue, !.item = item,
               !.head = q.head_, !.tail = 0]

\* order_pool.hpp:91-92: auto tail = tail_cached_; the first test.
push_read_cached(q, th) ==
    [th EXCEPT !.tail = q.tail_cached_,
               !.pc = IF push_is_full(q, th.head, q.tail_cached_)
                        THEN "push_93" ELSE "push_98"]

\* order_pool.hpp:93-96: tail = tail_cached_ = tail_.load(acquire); the
\* second test; return false when the queue is full.
push_reload(q, th) ==
    IF push_is_full(q, th.head, q.tail_)
      THEN Returned(th, NoItem)
      ELSE [th EXCEPT !.tail = q.tail_, !.pc = "push_98"]

\* order_pool.hpp:98: buffer_[head] = item
push_write(q, th) == [q EXCEPT !.buffer_[th.head] = th.item]

\* order_pool.hpp:99: head_.store((head + 1) & mask_, release)
push_publish(q, th) == [q EXCEPT !.head_ = next_index(q, th.head)]

\* order_pool.hpp:105: auto tail = tail_.load(relaxed)
pop_load_tail(q, th, queue) ==
    [th EXCEPT !.pc = "pop_106", !.queue = queue, !.item = NoItem,
               !.head = 0, !.tail = q.tail_]

\* order_pool.hpp:106-107: auto head = head_cached_; the first test.
pop_read_cached(q, th) ==
    [th EXCEPT !.head = q.head_cached_,
               !.pc = IF pop_is_empty(q, q.head_cached_, th.tail)
                        THEN "pop_108" ELSE "pop_113"]

\* order_pool.hpp:108-111: head = head_cached_ = head_.load(acquire); the
\* second test; return false when the queue is empty.
pop_reload(q, th) ==
    IF pop_is_empty(q, q.head_, th.tail)
      THEN Returned(th, NoItem)
      ELSE [th EXCEPT !.head = q.head_, !.pc = "pop_113"]

\* order_pool.hpp:113: item = buffer_[tail]
pop_read(q, th) == [th EXCEPT !.item = q.buffer_[th.tail], !.pc = "pop_114"]

\* order_pool.hpp:114: tail_.store((tail + 1) & mask_, release)
pop_publish(q, th) == [q EXCEPT !.tail_ = next_index(q, th.tail)]

\* What is remembered of the calls: per queue the threads that called push
\* and pop, the items push and pop returned true for, in the order of the
\* returns, whether push found it full and pop found it empty; and the
\* number of items offered so far.
NoHistory(queues) ==
    [pushers |-> [k \in queues |-> {}], poppers |-> [k \in queues |-> {}],
     pushed |-> [k \in queues |-> <<>>], popped |-> [k \in queues |-> <<>>],
     full |-> [k \in queues |-> FALSE], empty |-> [k \in queues |-> FALSE],
     offered |-> 0]

\* Thread t calls push(item) on queue k and loads head_; fresh is 1 when the
\* caller made the item, 0 when it hands on an item it popped.
PushBegin(t, k, item, fresh) ==
    /\ threads[t].pc = "idle"
    /\ threads' = [threads EXCEPT ![t] = push_load_head(rings[k], @, k, item)]
    /\ history' = [history EXCEPT !.pushers[k] = @ \cup {t},
                                  !.offered = @ + fresh]
    /\ UNCHANGED <<netVars, rings, serverVars>>

PushReadCached ==
    \E t \in DOMAIN threads :
        /\ threads[t].pc = "push_91"
        /\ threads' = [threads EXCEPT
                          ![t] = push_read_cached(rings[threads[t].queue], @)]
        /\ UNCHANGED <<netVars, rings, history, serverVars, lifeVars>>

PushReload ==
    \E t \in DOMAIN threads :
        /\ threads[t].pc = "push_93"
        /\ threads' = [threads EXCEPT
                          ![t] = push_reload(rings[threads[t].queue], @)]
        /\ rings' = [rings EXCEPT ![threads[t].queue].tail_cached_ =
                                      rings[threads[t].queue].tail_]
        /\ history' = [history EXCEPT
                          !.full[threads[t].queue] =
                              @ \/ push_is_full(rings[threads[t].queue],
                                                threads[t].head,
                                                rings[threads[t].queue].tail_)]
        /\ UNCHANGED <<netVars, serverVars, lifeVars>>

PushWrite ==
    \E t \in DOMAIN threads :
        /\ threads[t].pc = "push_98"
        /\ rings' = [rings EXCEPT
                        ![threads[t].queue] = push_write(@, threads[t])]
        /\ threads' = [threads EXCEPT ![t].pc = "push_99"]
        /\ UNCHANGED <<netVars, history, serverVars, lifeVars>>

\* The store to head_ and `return true`.
PushPublish ==
    \E t \in DOMAIN threads :
        /\ threads[t].pc = "push_99"
        /\ rings' = [rings EXCEPT
                        ![threads[t].queue] = push_publish(@, threads[t])]
        /\ threads' = [threads EXCEPT ![t] = Returned(@, NoItem)]
        /\ history' = [history EXCEPT
                          !.pushed[threads[t].queue] = Append(@, threads[t].item)]
        /\ UNCHANGED <<netVars, serverVars, lifeVars>>

\* Thread t calls pop on queue k and loads tail_.
PopBegin(t, k) ==
    /\ threads[t].pc = "idle"
    /\ threads' = [threads EXCEPT ![t] = pop_load_tail(rings[k], @, k)]
    /\ history' = [history EXCEPT !.poppers[k] = @ \cup {t}]
    /\ UNCHANGED <<netVars, rings, serverVars>>

PopReadCached ==
    \E t \in DOMAIN threads :
        /\ threads[t].pc = "pop_106"
        /\ threads' = [threads EXCEPT
                          ![t] = pop_read_cached(rings[threads[t].queue], @)]
        /\ UNCHANGED <<netVars, rings, history, serverVars, lifeVars>>

PopReload ==
    \E t \in DOMAIN threads :
        /\ threads[t].pc = "pop_108"
        /\ threads' = [threads EXCEPT
                          ![t] = pop_reload(rings[threads[t].queue], @)]
        /\ rings' = [rings EXCEPT ![threads[t].queue].head_cached_ =
                                      rings[threads[t].queue].head_]
        /\ history' = [history EXCEPT
                          !.empty[threads[t].queue] =
                              @ \/ pop_is_empty(rings[threads[t].queue],
                                                rings[threads[t].queue].head_,
                                                threads[t].tail)]
        /\ UNCHANGED <<netVars, serverVars, lifeVars>>

PopRead ==
    \E t \in DOMAIN threads :
        /\ threads[t].pc = "pop_113"
        /\ threads' = [threads EXCEPT
                          ![t] = pop_read(rings[threads[t].queue], @)]
        /\ UNCHANGED <<netVars, rings, history, serverVars, lifeVars>>

\* The store to tail_ and `return true`: the caller has the item.
PopPublish ==
    \E t \in DOMAIN threads :
        /\ threads[t].pc = "pop_114"
        /\ rings' = [rings EXCEPT
                        ![threads[t].queue] = pop_publish(@, threads[t])]
        /\ threads' = [threads EXCEPT
                          ![t] = [Returned(@, threads[t].item) EXCEPT !.got = TRUE]]
        /\ history' = [history EXCEPT
                          !.popped[threads[t].queue] = Append(@, threads[t].item)]
        /\ UNCHANGED <<netVars, serverVars, lifeVars>>

\* The steps inside push and pop, whoever the caller is.
QueueStep ==
    \/ PushReadCached \/ PushReload \/ PushWrite \/ PushPublish
    \/ PopReadCached \/ PopReload \/ PopRead \/ PopPublish

\* One queue, one thread that pushes the items 1, 2, ... (an item the queue
\* refuses is not offered again) and one thread that pops.
InitQueue ==
    /\ InitServer
    /\ rings = [k \in {"queue"} |-> SPSCQueue(QueueCapacity)]
    /\ threads = [t \in {"producer", "consumer"} |-> Idle]
    /\ history = NoHistory({"queue"})

Produce ==
    /\ history.offered < MaxItems
    /\ PushBegin("producer", "queue", history.offered + 1, 1)
    /\ UNCHANGED <<netVars, lifeVars>>

ConsumeItem ==
    /\ PopBegin("consumer", "queue")
    /\ UNCHANGED <<netVars, lifeVars>>

NextQueue == Produce \/ ConsumeItem \/ QueueStep
SpecQueue == InitQueue /\ [][NextQueue]_vars

\* ------------------------------------------------- the threads of main()
\* The capacity of the input queue and the number of client messages the
\* threads submit.  An item of in_queue_ is the number of a client message;
\* an item of out_queue_ stands for the output the engine produced for it.
InCapacity == 2
MaxSubmits == 2

\* main (network_server.cpp:496-523): MatchingServer engine(in, out), then
\* the engine, simulator, bot and network threads are started.
InitProgram ==
    /\ InitServer
    /\ rings = [k \in {"in_queue_", "out_queue_"} |->
                  IF k = "in_queue_" THEN SPSCQueue(InCapacity)
                                     ELSE SPSCQueue(OutCapacity)]
    /\ threads = [t \in {"engine", "sim", "bot", "net"} |-> Idle]
    /\ history = NoHistory({"in_queue_", "out_queue_"})

\* submit_new_order / submit_cancel (server.cpp:36-48) called by thread t.
submit(t) ==
    /\ history.offered < MaxSubmits
    /\ PushBegin(t, "in_queue_", history.offered + 1, 1)
    /\ UNCHANGED <<netVars, lifeVars>>

\* get_next_server_message (server.cpp:50-52) called by thread t.
get_next_server_message(t) ==
    /\ PopBegin(t, "out_queue_")
    /\ UNCHANGED <<netVars, lifeVars>>

\* MarketSimulator::send_limit_order (market_sim.cpp:46-53), from loop().
SimSend == submit("sim")

\* BSBot::post_limit_order and cancel_order (bs_bot.cpp:75-99), which
\* thread_loop reaches only once a TOB has given it a mid (bs_bot.cpp:161-165).
BotPost ==
    /\ threads["bot"].got
    /\ submit("bot")

\* BSBot::thread_loop (bs_bot.cpp:111)
BotPoll == get_next_server_message("bot")

\* NetworkServer::handle_client_payload (network_server.cpp:384, 394), called
\* from run_loop for a frame a client sent.
NetSubmit == submit("net")

\* NetworkServer::run_loop (network_server.cpp:309-320)
NetBroadcast == get_next_server_message("net")

\* engine_loop (server.cpp:94-96): in_queue_.pop(cm)
EnginePop ==
    /\ threads["engine"].item = NoItem
    /\ PopBegin("engine", "in_queue_")
    /\ UNCHANGED <<netVars, lifeVars>>

\* engine_loop (server.cpp:194-201): the output of the message goes to
\* out_queue_.push, whose result is not looked at.
EngineEmit ==
    /\ threads["engine"].item /= NoItem
    /\ PushBegin("engine", "out_queue_", threads["engine"].item, 0)
    /\ UNCHANGED <<netVars, lifeVars>>

NextProgram ==
    \/ SimSend \/ BotPost \/ BotPoll \/ NetSubmit \/ NetBroadcast
    \/ EnginePop \/ EngineEmit \/ QueueStep
SpecProgram == InitProgram /\ [][NextProgram]_vars

\* ------------------------------------------------- a PnLEngine on its own
\* The number of calls made on the PnLEngine.
MaxCalls == 5

\* The mids the engine passes to on_midprice: half ticks above zero
\* (server.cpp:233-243).
Mids == {Frac(k, 2) : k \in 1..(2 * (MaxPrice - 1))}

\* pnl_ is the engine under test; history counts the calls and keeps the last.
InitPnL ==
    /\ InitServer
    /\ rings = <<>>
    /\ threads = <<>>
    /\ history = [calls |-> 0, op |-> "none", user_is_buy |-> FALSE,
                  price |-> Zero, qty |-> 0]

\* PnLEngine::on_trade (pnl.cpp:14-69) with a fill of a trade.
OnTrade ==
    /\ history.calls < MaxCalls
    /\ \E user_is_buy \in BOOLEAN, price \in Prices, qty \in 1..MaxQty :
          /\ pnl_' = on_trade(pnl_, user_is_buy, Dbl(price), qty)
          /\ history' = [calls |-> history.calls + 1, op |-> "on_trade",
                         user_is_buy |-> user_is_buy, price |-> Dbl(price),
                         qty |-> qty]
    /\ UNCHANGED <<netVars, bookVars, lastCall, roundTrip, order_user_, bs_pnl_, last_tob,
                   have_last_tob, out_queue_, processed, popped, stream,
                   rings, threads, lifeVars>>

\* PnLEngine::on_midprice (pnl.cpp:71-81)
OnMidprice ==
    /\ history.calls < MaxCalls
    /\ \E mid \in Mids :
          /\ pnl_' = on_midprice(pnl_, mid)
          /\ history' = [calls |-> history.calls + 1, op |-> "on_midprice",
                         user_is_buy |-> FALSE, price |-> mid, qty |-> 0]
    /\ UNCHANGED <<netVars, bookVars, lastCall, roundTrip, order_user_, bs_pnl_, last_tob,
                   have_last_tob, out_queue_, processed, popped, stream,
                   rings, threads, lifeVars>>

NextPnL == OnTrade \/ OnMidprice
SpecPnL == InitPnL /\ [][NextPnL]_vars

\* --------------------------------------------- start, stop and engine_loop
\* BATCH_SIZE (server.cpp:88, 1024 there) and the number of client messages
\* the producer submits while the engine starts, runs and stops.
BATCH_SIZE == 2
StopSubmits == 4

\* One producer (the simulator), the engine thread, and a caller of stop().
InitStop ==
    /\ InitServer
    /\ rings = [k \in {"in_queue_", "out_queue_"} |->
                  IF k = "in_queue_" THEN SPSCQueue(InCapacity)
                                     ELSE SPSCQueue(OutCapacity)]
    /\ threads = [t \in {"engine", "sim"} |-> Idle]
    /\ history = NoHistory({"in_queue_", "out_queue_"})

\* MatchingServer::start (server.cpp:23-27)
Start ==
    /\ ~running_
    /\ loop.pc = "none"
    /\ running_' = TRUE
    /\ loop' = [pc |-> "90", processed |-> 0]
    /\ UNCHANGED <<netVars, serverVars, queueVars, stopping>>

\* MatchingServer::stop (server.cpp:30-32): the flag is cleared, join follows.
Stop ==
    /\ running_
    /\ stopping.pc = "none"
    /\ running_' = FALSE
    /\ stopping' = [stopping EXCEPT !.pc = "join"]
    /\ UNCHANGED <<netVars, serverVars, queueVars, loop>>

\* MatchingServer::stop (server.cpp:33): join returns once the thread is over.
Joined ==
    /\ stopping.pc = "join"
    /\ loop.pc = "exited"
    /\ stopping' = [stopping EXCEPT !.pc = "returned"]
    /\ UNCHANGED <<netVars, serverVars, queueVars, running_, loop>>

\* A loop in which the batch never ends.
batch_open_always(n) == TRUE

\* server.cpp:93: while (processed < BATCH_SIZE)
batch_open(n) == n < BATCH_SIZE

\* server.cpp:90-91: while (running_) { processed = 0;
LoopRunning ==
    /\ loop.pc = "90"
    /\ loop' = IF running_ THEN [pc |-> "93", processed |-> 0]
                           ELSE [loop EXCEPT !.pc = "exited"]
    /\ UNCHANGED <<netVars, serverVars, queueVars, running_, stopping>>

\* server.cpp:93-95: the batch test and the call in_queue_.pop(cm).
LoopPop ==
    /\ loop.pc = "93"
    /\ IF batch_open(loop.processed)
         THEN /\ PopBegin("engine", "in_queue_")
              /\ loop' = [loop EXCEPT !.pc = "95"]
         ELSE /\ loop' = [loop EXCEPT !.pc = "301"]
              /\ UNCHANGED <<netVars, serverVars, queueVars>>
    /\ UNCHANGED <<netVars, running_, stopping>>

\* server.cpp:95-96: pop has returned; break when it found nothing, else
\* ++processed.  `since` counts the messages popped after the flag was cleared.
LoopPopped ==
    /\ loop.pc = "95"
    /\ threads["engine"].pc = "idle"
    /\ loop' = IF threads["engine"].item = NoItem
                 THEN [loop EXCEPT !.pc = "301"]
                 ELSE [pc |-> "99", processed |-> loop.processed + 1]
    /\ stopping' = IF threads["engine"].item /= NoItem /\ stopping.pc /= "none"
                     THEN [stopping EXCEPT !.since = @ + 1]
                     ELSE stopping
    /\ UNCHANGED <<netVars, serverVars, queueVars, running_>>

\* server.cpp:99-298: the message is applied and its output goes to
\* out_queue_.push.
LoopApply ==
    /\ loop.pc = "99"
    /\ PushBegin("engine", "out_queue_", threads["engine"].item, 0)
    /\ loop' = [loop EXCEPT !.pc = "298"]
    /\ UNCHANGED <<netVars, running_, stopping>>

\* server.cpp:298: the push has returned, back to the batch test.
LoopApplied ==
    /\ loop.pc = "298"
    /\ threads["engine"].pc = "idle"
    /\ loop' = [loop EXCEPT !.pc = "93"]
    /\ UNCHANGED <<netVars, serverVars, queueVars, running_, stopping>>

\* server.cpp:300-304: the backoff when nothing was processed, then the
\* next iteration.
LoopBackoff ==
    /\ loop.pc = "301"
    /\ loop' = [loop EXCEPT !.pc = "90"]
    /\ UNCHANGED <<netVars, serverVars, queueVars, running_, stopping>>

\* MarketSimulator::send_limit_order (market_sim.cpp:46-53), while the flag
\* is set or not: the simulator does not look at it.
StopSubmit ==
    /\ history.offered < StopSubmits
    /\ PushBegin("sim", "in_queue_", history.offered + 1, 1)
    /\ UNCHANGED <<netVars, lifeVars>>

\* The steps of the engine thread: those of its loop and those inside the
\* pop and push it has called.
EngineRuns ==
    \/ LoopRunning \/ LoopPop \/ LoopPopped \/ LoopApply \/ LoopApplied
    \/ LoopBackoff
    \/ (QueueStep /\ threads'["engine"] /= threads["engine"])

NextStop ==
    \/ Start \/ Stop \/ Joined \/ StopSubmit
    \/ LoopRunning \/ LoopPop \/ LoopPopped \/ LoopApply \/ LoopApplied
    \/ LoopBackoff \/ QueueStep

\* The engine thread and the thread inside join keep being scheduled.
SpecStop ==
    InitStop /\ [][NextStop]_vars /\ WF_vars(EngineRuns) /\ WF_vars(Joined)

\* ------------------------------------------------- vocabulary of the claims
\* The pool indices linked from idx on, in list order (at most n of them).
RECURSIVE Walk(_, _, _)
Walk(s, idx, n) ==
    IF idx = UINT32_MAX \/ n = 0 THEN <<>>
    ELSE <<idx>> \o Walk(s, s[idx].next, n - 1)

\* The FIFO of the level at `price` in `map`, empty when there is no level.
Fifo(s, map, price) ==
    IF price \in DOMAIN map THEN Walk(s, map[price].head, PoolCapacity) ELSE <<>>

Range(seq) == {seq[i] : i \in DOMAIN seq}

RECURSIVE TotalQty(_)
TotalQty(trades) ==
    IF trades = <<>> THEN 0
    ELSE trades[1].quantity + TotalQty(Tail(trades))

\* In a trade of incoming order o, the id of the resting side.
RestingId(o, tr) == IF o.side = Buy THEN tr.sell_order_id ELSE tr.buy_order_id

\* Price q is marketable against the limit of incoming order o.
Marketable(o, q) == IF o.side = Buy THEN q <= o.price ELSE q >= o.price

\* Price q is strictly better than p for the side opposite to order o.
Better(o, q, p) == IF o.side = Buy THEN q < p ELSE q > p

\* C1: the book is never crossed: when both sides are non-empty the best bid
\* is strictly below the best ask, and an order that was left resting has no
\* opposite-side price that is marketable against its limit.
C1_NeverCrossed ==
    /\ (DOMAIN bids_ /= {} /\ DOMAIN asks_ /= {})
          => MaxOf(DOMAIN bids_) < MinOf(DOMAIN asks_)
    /\ (lastCall.op = "submit" /\ lastCall.ret_id /= 0)
          => \A q \in DOMAIN (IF lastCall.order.side = Buy THEN asks_ ELSE bids_) :
                ~Marketable(lastCall.order, q)

\* C1 witness: an order traded, its residual rests, and both sides are quoted.
C1_Witness ==
    /\ lastCall.op = "submit"
    /\ lastCall.ret_id /= 0
    /\ lastCall.out_trades /= <<>>
    /\ DOMAIN bids_ /= {}
    /\ DOMAIN asks_ /= {}

\* C2: every trade of a submit carries the price of the level its resting
\* order was linked in before the call, for incoming buys and sells alike.
C2_MakerPrice ==
    [][lastCall'.op = "submit" =>
        \A i \in DOMAIN lastCall'.out_trades :
            LET o == lastCall'.order
                tr == lastCall'.out_trades[i]
                opp == IF o.side = Buy THEN asks_ ELSE bids_
            IN \E k \in Range(Fifo(storage_, opp, tr.price)) :
                  /\ storage_[k].order_id = RestingId(o, tr)
                  /\ storage_[k].price = tr.price]_vars

\* C2 witness: an incoming sell traded at a price strictly better than its limit.
C2_Witness ==
    /\ lastCall.op = "submit"
    /\ lastCall.order.side = Sell
    /\ \E i \in DOMAIN lastCall.out_trades :
          lastCall.out_trades[i].price > lastCall.order.price

\* ---- further vocabulary: one step seen from both of its ends
Opposite(side) == IF side = Buy THEN Sell ELSE Buy

\* Sum of the quantities of the trades whose resting order has id `id`.
RECURSIVE TradedAgainst(_, _, _)
TradedAgainst(o, trades, id) ==
    IF trades = <<>> THEN 0
    ELSE (IF RestingId(o, trades[1]) = id THEN trades[1].quantity ELSE 0)
         + TradedAgainst(o, Tail(trades), id)

\* Sum of the quantities of the first n trades that are priced at q.
RECURSIVE TradedAtBefore(_, _, _)
TradedAtBefore(trades, q, n) ==
    IF n = 0 THEN 0
    ELSE (IF trades[n].price = q THEN trades[n].quantity ELSE 0)
         + TradedAtBefore(trades, q, n - 1)

TradesAt(trades, p) == SelectSeq(trades, LAMBDA t : t.price = p)
Without(seq, k) == SelectSeq(seq, LAMBDA x : x /= k)
IsSuffix(t, w) == \E n \in 0..Len(w) : t = SubSeq(w, n + 1, Len(w))

\* The id under which a submission is processed: its own, or the next one.
SubmissionId(o) == IF o.order_id = 0 THEN next_order_id_ ELSE o.order_id

\* What is left, after the step, of the order that slot k held before it: a
\* slot released by the step can only be taken again by the incoming order,
\* which rests on the other side.
RemainingAfter(k) ==
    IF storage_'[k].active /\ storage_'[k].side = storage_[k].side
      THEN storage_'[k].quantity ELSE 0

\* The quantity resting under id `id` after the step.
RestingAfter(id) ==
    IF id \in DOMAIN order_index_'
      THEN storage_'[order_index_'[id].idx].quantity ELSE 0

\* C3: quantity is conserved by every submit: the traded quantities plus the
\* quantity left resting under the submission's id equal the submitted
\* quantity, and each resting counterparty lost exactly what was traded
\* against it.
C3_QuantityConserved ==
    [][lastCall'.op = "submit" =>
        LET o == lastCall'.order
            trs == lastCall'.out_trades
        IN /\ TotalQty(trs) + RestingAfter(SubmissionId(o)) = o.quantity
           /\ \A k \in PoolIdx :
                (storage_[k].active /\ storage_[k].side = Opposite(o.side))
                   => storage_[k].quantity - RemainingAfter(k)
                        = TradedAgainst(o, trs, storage_[k].order_id)]_vars

\* C3 witness: a submit that filled a resting order and left a residual of
\* its own resting.
C3_Witness ==
    /\ lastCall.op = "submit"
    /\ lastCall.out_trades /= <<>>
    /\ lastCall.ret_id /= 0
    /\ TotalQty(lastCall.out_trades) + storage_[order_index_[lastCall.ret_id].idx].quantity
          = lastCall.order.quantity

\* C4: price priority.  Every trade is at a marketable price (the limit
\* itself included); trade prices never get better along out_trades; when a
\* trade happens every strictly better opposite level has been consumed in
\* full by the trades before it; the traded total never exceeds the order;
\* and a residual is left only when no opposite price is marketable any more.
C4_PricePriority ==
    [][lastCall'.op = "submit" =>
        LET o == lastCall'.order
            trs == lastCall'.out_trades
            opp == IF o.side = Buy THEN asks_ ELSE bids_
            oppAfter == IF o.side = Buy THEN asks_' ELSE bids_'
        IN /\ \A i \in DOMAIN trs : Marketable(o, trs[i].price)
           /\ \A i, j \in DOMAIN trs :
                i < j => ~Better(o, trs[j].price, trs[i].price)
           /\ \A i \in DOMAIN trs : \A q \in DOMAIN opp :
                Better(o, q, trs[i].price)
                   => TradedAtBefore(trs, q, i - 1) = level_sum(storage_, opp[q].head)
           /\ TotalQty(trs) <= o.quantity
           /\ TotalQty(trs) < o.quantity
                 => \A q \in DOMAIN oppAfter : ~Marketable(o, q)]_vars

\* C4 witness: a submit that traded at two levels, the second being priced
\* exactly at its limit.
C4_Witness ==
    /\ lastCall.op = "submit"
    /\ Len(lastCall.out_trades) >= 2
    /\ lastCall.out_trades[1].price /= lastCall.out_trades[2].price
    /\ lastCall.out_trades[Len(lastCall.out_trades)].price = lastCall.order.price

\* C5: time priority.  The trades of a submit at one price go to the orders
\* of that level in list order, each one before the last being filled in
\* full, and the level's survivors are a suffix of the old list; a residual
\* is appended behind every order already resting at its price; a cancel
\* removes its order and keeps the order of the others.
C5_TimePriority ==
    [][/\ lastCall'.op = "submit" =>
            LET o == lastCall'.order
                trs == lastCall'.out_trades
                opp == IF o.side = Buy THEN asks_ ELSE bids_
                oppAfter == IF o.side = Buy THEN asks_' ELSE bids_'
                own == IF o.side = Buy THEN bids_ ELSE asks_
                ownAfter == IF o.side = Buy THEN bids_' ELSE asks_'
            IN /\ \A p \in DOMAIN opp :
                    LET w == Fifo(storage_, opp, p)
                        ta == TradesAt(trs, p)
                    IN /\ Len(ta) <= Len(w)
                       /\ \A i \in DOMAIN ta :
                            /\ RestingId(o, ta[i]) = storage_[w[i]].order_id
                            /\ i < Len(ta) => ta[i].quantity = storage_[w[i]].quantity
                       /\ IsSuffix(Fifo(storage_', oppAfter, p), w)
               /\ lastCall'.ret_id /= 0 =>
                    Fifo(storage_', ownAfter, o.price)
                       = Append(Fifo(storage_, own, o.price),
                                order_index_'[lastCall'.ret_id].idx)
               /\ \A p \in DOMAIN own :
                    p /= o.price => Fifo(storage_', ownAfter, p) = Fifo(storage_, own, p)
       /\ (lastCall'.op = "cancel" /\ lastCall'.ret_ok) =>
            LET ref == order_index_[lastCall'.order_id]
                map == IF ref.side = Buy THEN bids_ ELSE asks_
                mapAfter == IF ref.side = Buy THEN bids_' ELSE asks_'
            IN Fifo(storage_', mapAfter, ref.price)
                  = Without(Fifo(storage_, map, ref.price), ref.idx)]_vars

\* C5 witness: a submit filled two orders of one level one after the other.
C5_Witness ==
    /\ lastCall.op = "submit"
    /\ Len(lastCall.out_trades) >= 2
    /\ lastCall.out_trades[1].price = lastCall.out_trades[2].price
    /\ RestingId(lastCall.order, lastCall.out_trades[1])
          /= RestingId(lastCall.order, lastCall.out_trades[2])

\* C6: with ids assigned by the book, every id of the index refers to exactly
\* one active slot, linked into exactly one level, the one on the side and at
\* the price of its OrderRef; and every active slot is indexed under its id.
C6_IndexConsistent ==
    /\ \A id \in DOMAIN order_index_ :
          LET ref == order_index_[id]
          IN /\ storage_[ref.idx].active
             /\ storage_[ref.idx].order_id = id
             /\ Cardinality({k \in PoolIdx : storage_[k].active
                                              /\ storage_[k].order_id = id}) = 1
             /\ {sp \in {Buy, Sell} \X Prices :
                    ref.idx \in Range(Fifo(storage_, side_map(Book, sp[1]), sp[2]))}
                  = {<<ref.side, ref.price>>}
    /\ \A k \in PoolIdx :
          storage_[k].active
             => /\ storage_[k].order_id \in DOMAIN order_index_
                /\ order_index_[storage_[k].order_id].idx = k
    /\ \A sp \in {Buy, Sell} \X Prices :
          \A k \in Range(Fifo(storage_, side_map(Book, sp[1]), sp[2])) :
             storage_[k].active

\* C6 witness: two indexed orders share a level after a submit has traded.
C6_Witness ==
    /\ lastCall.op = "submit"
    /\ lastCall.out_trades /= <<>>
    /\ Cardinality(DOMAIN order_index_) >= 2
    /\ \E sp \in {Buy, Sell} \X Prices :
          Len(Fifo(storage_, side_map(Book, sp[1]), sp[2])) >= 2

C8_CancelAllOrNothing ==
    [][lastCall'.op = "cancel" =>
        LET id == lastCall'.order_id
        IN IF lastCall'.ret_ok
             THEN /\ id \in DOMAIN order_index_
                  /\ LET ref == order_index_[id]
                         map == IF ref.side = Buy THEN bids_ ELSE asks_
                         mapAfter == IF ref.side = Buy THEN bids_' ELSE asks_'
                         w == Fifo(storage_, map, ref.price)
                     IN /\ order_index_' = Erase(order_index_, id)
                        /\ ~storage_'[ref.idx].active
                        /\ free_list_' = Append(free_list_, ref.idx)
                        /\ Fifo(storage_', mapAfter, ref.price) = Without(w, ref.idx)
                        /\ Len(w) = 1 <=> ref.price \notin DOMAIN mapAfter
                        /\ DOMAIN mapAfter \subseteq DOMAIN map
                        /\ IF ref.side = Buy THEN asks_' = asks_ ELSE bids_' = bids_
             ELSE /\ id \notin DOMAIN order_index_
                  /\ UNCHANGED bookVars]_vars

\* C8 witness: a cancel returned true and left another order in the level.
C8_Witness ==
    /\ lastCall.op = "cancel"
    /\ lastCall.ret_ok
    /\ lastCall.order_id \notin DOMAIN order_index_
    /\ \E k \in PoolIdx :
          /\ ~storage_[k].active
          /\ storage_[k].order_id = lastCall.order_id
          /\ Fifo(storage_, side_map(Book, storage_[k].side), storage_[k].price) /= <<>>

\* C9: a zero-quantity submit returns 0 with no trades, consumes no order id,
\* trade id or timestamp and leaves maps, index and pool unchanged.
C9_ZeroQuantityNoOp ==
    [][(lastCall'.op = "submit" /\ lastCall'.order.quantity = 0) =>
        /\ lastCall'.ret_id = 0
        /\ lastCall'.out_trades = <<>>
        /\ UNCHANGED bookVars]_vars

\* C9 witness: a zero-quantity submit was made on a book that holds orders.
C9_Witness ==
    /\ lastCall.op = "submit"
    /\ lastCall.order.quantity = 0
    /\ DOMAIN order_index_ /= {}

\* C10: round trip.  After a submit that rested without trading and the
\* cancel of the id it returned, snapshot_bids, snapshot_asks and top_of_book
\* are what they were before the submit.
C10_RoundTrip ==
    roundTrip.stage = "cancelled" =>
        /\ lastCall.op = "cancel"
        /\ lastCall.ret_ok
        /\ snapshot_bids(Book) = roundTrip.bids
        /\ snapshot_asks(Book) = roundTrip.asks
        /\ top_of_book(Book) = roundTrip.tob

\* C10 witness: such a round trip was completed on a book quoted on both sides.
C10_Witness ==
    /\ roundTrip.stage = "cancelled"
    /\ roundTrip.bids /= <<>>
    /\ roundTrip.asks /= <<>>

\* ------------------------------------------- vocabulary of the engine claims
\* The messages handed to out_queue_.push for the last input message, in
\* the order of the calls.
MsgsOf(log) == [i \in DOMAIN log |-> log[i].msg]

\* The positions in a sequence of messages that hold a given type.
PositionsOf(msgs, type) == {i \in DOMAIN msgs : msgs[i].type = type}

\* A step in which the engine processed one input message.
EngineStep == popped' = popped + 1

\* C11: the ids the book hands out are strictly increasing and never reused:
\* the counters never go back; in the engine's output stream every TRADE has a
\* trade_id greater than that of every earlier TRADE (of the same and of
\* earlier input messages); and every non-zero order id in a NEW_ORDER ACK is
\* greater than every order id ACKed before, so no two orders that ever
\* rested share an id.
C11_IdsIncrease ==
    [][EngineStep =>
        /\ next_order_id_' >= next_order_id_
        /\ next_trade_id_' >= next_trade_id_
        /\ next_timestamp_' >= next_timestamp_
        /\ \A i \in PositionsOf(MsgsOf(processed'.log), TRADE) :
              /\ \A old \in stream.trade_ids :
                    MsgsOf(processed'.log)[i].trade.trade_id > old
              /\ \A j \in PositionsOf(MsgsOf(processed'.log), TRADE) :
                    j < i => MsgsOf(processed'.log)[j].trade.trade_id
                                < MsgsOf(processed'.log)[i].trade.trade_id
        /\ \A id \in OrderIdsOf(MsgsOf(processed'.log)) :
              /\ \A old \in stream.order_ids : id > old
              /\ id \in DOMAIN order_index_'
              /\ id \notin DOMAIN order_index_
        /\ Cardinality(OrderIdsOf(MsgsOf(processed'.log))) <= 1]_vars

\* Two trades and two rested orders have been emitted, across input messages.
C11_Witness ==
    /\ Cardinality(stream.trade_ids) >= 2
    /\ Cardinality(stream.order_ids) >= 2
    /\ Cardinality(PositionsOf(MsgsOf(processed.log), TRADE)) = 1

\* The messages of a log for which push returned true, in the order of the calls.
RECURSIVE Accepted(_)
Accepted(log) ==
    IF log = <<>> THEN <<>>
    ELSE (IF Head(log).pushed THEN <<Head(log).msg>> ELSE <<>>) \o Accepted(Tail(log))

\* msgs is ordered by `rank`: no message is followed by one of a lower rank.
OrderedBy(msgs, rank(_, _)) ==
    \A i, j \in DOMAIN msgs : i < j => rank(msgs, i) <= rank(msgs, j)

\* The order of the outputs as the claim lists them.
ListedRank(msgs, i) ==
    CASE msgs[i].type = TRADE      -> 1
      [] msgs[i].type = ACK        -> 2
      [] msgs[i].type = TOB        -> 3
      [] msgs[i].type = PNL_UPDATE -> 4
      [] msgs[i].type = L2_UPDATE  -> 5

\* The order of the outputs with the PNL_UPDATEs of the trade attribution
\* (those pushed before the ACK) ahead of the trades.
AttributedRank(msgs, i) ==
    CASE msgs[i].type = TRADE      -> 2
      [] msgs[i].type = ACK        -> 3
      [] msgs[i].type = TOB        -> 4
      [] msgs[i].type = PNL_UPDATE ->
            (IF \E a \in PositionsOf(msgs, ACK) : a < i THEN 5 ELSE 1)
      [] msgs[i].type = L2_UPDATE  -> 6

\* The outputs of one input message enter the queue behind everything that
\* was queued before, in the order of the push calls.
QueuedBehind == out_queue_' = out_queue_ \o Accepted(processed'.log)

\* C12 as stated: the outputs of one input message are pushed in the order
\* Trades, ACK, TOB, PNL, L2 diffs, and before any output of the next input.
C12_ListedOrder ==
    [][EngineStep =>
        /\ OrderedBy(MsgsOf(processed'.log), ListedRank)
        /\ QueuedBehind]_vars

\* C12 (as amended): the outputs of one input message are pushed in the order
\* PNL_UPDATEs of the trade attribution, Trades, ACK, TOB, mid-price
\* PNL_UPDATEs, L2 diffs, and they are queued behind every output of the
\* earlier input messages.
C12_OutputOrder ==
    [][EngineStep =>
        /\ OrderedBy(MsgsOf(processed'.log), AttributedRank)
        /\ QueuedBehind]_vars

\* An input message caused outputs of all five kinds, PNL_UPDATEs on both
\* sides of the ACK, and some of them were queued behind an earlier output.
C12_Witness ==
    /\ \A t \in {TRADE, ACK, TOB, PNL_UPDATE, L2_UPDATE} :
          PositionsOf(MsgsOf(processed.log), t) /= {}
    /\ \E i, j \in PositionsOf(MsgsOf(processed.log), PNL_UPDATE) :
          \E a \in PositionsOf(MsgsOf(processed.log), ACK) : i < a /\ a < j
    /\ \E k \in DOMAIN processed.log : processed.log[k].pushed
    /\ popped >= 2

\* The ids of the orders that are active in the pool in storage s.
ActiveIds(s) == {s[k].order_id : k \in {i \in PoolIdx : s[i].active}}

\* The single ACK among msgs.
TheAck(msgs) == msgs[CHOOSE i \in PositionsOf(msgs, ACK) : TRUE].ack

\* C13: every input message the engine processes produces exactly one ACK.
\* For a NEW_ORDER it has status 0, type NEW_ORDER and the id under which the
\* order came to rest, 0 if it did not rest.  For a CANCEL it has type
\* CANCEL, the requested id, and status 0 exactly when that id was resting
\* when the message was processed, else status 1.
C13_OneAck ==
    [][EngineStep =>
        /\ Cardinality(PositionsOf(MsgsOf(processed'.log), ACK)) = 1
        /\ processed'.cm.type = NEW_ORDER =>
              /\ TheAck(MsgsOf(processed'.log)).status = 0
              /\ TheAck(MsgsOf(processed'.log)).type = NEW_ORDER
              /\ IF ActiveIds(storage_') \subseteq ActiveIds(storage_)
                   THEN TheAck(MsgsOf(processed'.log)).order_id = 0
                   ELSE /\ ActiveIds(storage_') \ ActiveIds(storage_)
                              = {TheAck(MsgsOf(processed'.log)).order_id}
                        /\ TheAck(MsgsOf(processed'.log)).order_id
                              \in DOMAIN order_index_'
        /\ processed'.cm.type = CANCEL =>
              /\ TheAck(MsgsOf(processed'.log)).type = CANCEL
              /\ TheAck(MsgsOf(processed'.log)).order_id = processed'.cm.cancel.order_id
              /\ TheAck(MsgsOf(processed'.log)).status \in {0, 1}
              /\ TheAck(MsgsOf(processed'.log)).status = 0
                    <=> processed'.cm.cancel.order_id \in ActiveIds(storage_)]_vars

\* A CANCEL of a resting order was acknowledged with status 0 after a
\* NEW_ORDER had been acknowledged with the id it rests under.
C13_Witness ==
    /\ processed.cm.type = CANCEL
    /\ PositionsOf(MsgsOf(processed.log), ACK) /= {}
    /\ TheAck(MsgsOf(processed.log)).status = 0
    /\ TheAck(MsgsOf(processed.log)).order_id \in stream.order_ids

\* The six fields the claim compares.
TobFields(t) ==
    <<t.has_bid, t.bid_price, t.bid_quantity, t.has_ask, t.ask_price, t.ask_quantity>>

\* The four fields a TOB message carries, zeros for an absent side.
TobOnWire(t) ==
    <<IF t.has_bid THEN t.bid_price ELSE 0, IF t.has_bid THEN t.bid_quantity ELSE 0,
      IF t.has_ask THEN t.ask_price ELSE 0, IF t.has_ask THEN t.ask_quantity ELSE 0>>

\* The TOB messages among msgs, as the four fields they carry.
TobsOf(msgs) ==
    {<<msgs[i].tob.bid_price, msgs[i].tob.bid_quantity,
       msgs[i].tob.ask_price, msgs[i].tob.ask_quantity>> :
        i \in PositionsOf(msgs, TOB)}

\* C14: after an input message a TOB message is emitted if and only if the
\* book's top_of_book differs in one of has_bid, bid_price, bid_qty, has_ask,
\* ask_price, ask_qty from the top of book of the last TOB emitted, where no
\* earlier TOB counts as a difference; the message carries the new top of
\* book, and it differs from the TOB message emitted before it.
C14_TobOnChange ==
    [][EngineStep =>
        /\ Cardinality(PositionsOf(MsgsOf(processed'.log), TOB)) <= 1
        /\ PositionsOf(MsgsOf(processed'.log), TOB) /= {}
              <=> \/ stream.tob = <<>>
                  \/ TobFields(top_of_book(Book)') /= TobFields(stream.tob[1])
        /\ PositionsOf(MsgsOf(processed'.log), TOB) /= {} =>
              /\ TobsOf(MsgsOf(processed'.log)) = {TobOnWire(top_of_book(Book)')}
              /\ stream.tob /= <<>> =>
                    TobOnWire(top_of_book(Book)') /= TobOnWire(stream.tob[1])]_vars

\* A TOB message was emitted after an earlier one; the book is not empty.
C14_Witness ==
    /\ popped >= 2
    /\ PositionsOf(MsgsOf(processed.log), TOB) /= {}
    /\ top_of_book(Book).has_bid
    /\ top_of_book(Book).has_ask

\* The negative ACK of a CANCEL for `id`.
NegativeAck(id) ==
    [type |-> ACK, ack |-> [status |-> 1, type |-> CANCEL, order_id |-> id]]

\* A step in which the engine processed a CANCEL for an id that was not resting.
UnknownCancelStep ==
    /\ EngineStep
    /\ processed'.cm.type = CANCEL
    /\ processed'.cm.cancel.order_id \notin ActiveIds(storage_)

\* C15 as stated: a CANCEL for an id that is not resting causes exactly one
\* output, the negative ACK, also when it is the very first message.
C15_SingleAck ==
    [][UnknownCancelStep =>
        MsgsOf(processed'.log) = <<NegativeAck(processed'.cm.cancel.order_id)>>]_vars

\* C15 (as amended): a CANCEL for an id that is not resting causes the
\* negative ACK and no TRADE, PNL_UPDATE or L2_UPDATE; it causes no TOB
\* either, unless it is the first input message the engine processes: then
\* one TOB with all fields zero follows the ACK.
C15_NegativeAck ==
    [][UnknownCancelStep =>
        /\ MsgsOf(processed'.log)[1] = NegativeAck(processed'.cm.cancel.order_id)
        /\ \A t \in {TRADE, PNL_UPDATE, L2_UPDATE} :
              PositionsOf(MsgsOf(processed'.log), t) = {}
        /\ IF popped = 0
             THEN /\ Len(processed'.log) = 2
                  /\ TobsOf(MsgsOf(processed'.log)) = {<<0, 0, 0, 0>>}
             ELSE Len(processed'.log) = 1]_vars

\* A CANCEL for an id that is not resting was processed, after other
\* messages, while an order was resting.
C15_Witness ==
    /\ popped >= 2
    /\ processed.cm.type = CANCEL
    /\ MsgsOf(processed.log) = <<NegativeAck(processed.cm.cancel.order_id)>>
    /\ processed.cm.cancel.order_id /= 0
    /\ DOMAIN order_index_ /= {}

\* The sum of the quantities of the pool slots in a sequence of indices.
RECURSIVE SumQty(_, _)
SumQty(s, idxs) ==
    IF idxs = <<>> THEN 0 ELSE s[Head(idxs)].quantity + SumQty(s, Tail(idxs))

\* The aggregate resting quantity at `price` in `map`, 0 without a level.
Aggregate(s, map, price) == SumQty(s, Fifo(s, map, price))

\* The L2_UPDATE messages among msgs for one side and price.
L2At(msgs, side_flag, price) ==
    {i \in PositionsOf(msgs, L2_UPDATE) :
        msgs[i].l2.side = side_flag /\ msgs[i].l2.price = price}

\* C16: after each input message the engine emits, per side, exactly one
\* L2_UPDATE for every price whose aggregate resting quantity after the
\* message differs from the one before it, carrying the new aggregate (0
\* when the level is gone), and none for a price whose aggregate is unchanged.
C16_L2Diffs ==
    [][EngineStep =>
        /\ \A price \in Prices :
              IF Aggregate(storage_, bids_, price) /= Aggregate(storage_', bids_', price)
                THEN /\ Cardinality(L2At(MsgsOf(processed'.log), 0, price)) = 1
                     /\ \A i \in L2At(MsgsOf(processed'.log), 0, price) :
                           MsgsOf(processed'.log)[i].l2.quantity
                              = Aggregate(storage_', bids_', price)
                ELSE L2At(MsgsOf(processed'.log), 0, price) = {}
        /\ \A price \in Prices :
              IF Aggregate(storage_, asks_, price) /= Aggregate(storage_', asks_', price)
                THEN /\ Cardinality(L2At(MsgsOf(processed'.log), 1, price)) = 1
                     /\ \A i \in L2At(MsgsOf(processed'.log), 1, price) :
                           MsgsOf(processed'.log)[i].l2.quantity
                              = Aggregate(storage_', asks_', price)
                ELSE L2At(MsgsOf(processed'.log), 1, price) = {}
        /\ \A i \in PositionsOf(MsgsOf(processed'.log), L2_UPDATE) :
              /\ MsgsOf(processed'.log)[i].l2.side \in {0, 1}
              /\ MsgsOf(processed'.log)[i].l2.price \in Prices]_vars

\* One input message changed an ask level and a bid level: an L2_UPDATE with
\* quantity 0 for the ask level that disappeared and one for the bid level
\* the residual rests at.
C16_Witness ==
    /\ Cardinality(PositionsOf(MsgsOf(processed.log), L2_UPDATE)) = 2
    /\ \E i \in PositionsOf(MsgsOf(processed.log), L2_UPDATE) :
          /\ MsgsOf(processed.log)[i].l2.side = 1
          /\ MsgsOf(processed.log)[i].l2.quantity = 0
    /\ \E i \in PositionsOf(MsgsOf(processed.log), L2_UPDATE) :
          /\ MsgsOf(processed.log)[i].l2.side = 0
          /\ MsgsOf(processed.log)[i].l2.quantity > 0

\* The mid price of a top of book with at least one side: the mean of the
\* best bid and the best ask, or the price of the only side present.
MidOf(t) ==
    IF t.has_bid /\ t.has_ask THEN Frac(t.bid_price + t.ask_price, 2)
    ELSE IF t.has_bid THEN Frac(t.bid_price, 1)
    ELSE Frac(t.ask_price, 1)

\* The PNL_UPDATE messages among msgs behind position i.
PnlBehind(msgs, i) == {j \in PositionsOf(msgs, PNL_UPDATE) : j > i}

\* The PNL_UPDATE of a PnL engine that was marked to `mid`.
MarkedTo(msg, p, user_id, mid) ==
    /\ p.last_mid_ = mid
    /\ p.unrealized_pnl_ = (IF p.position_ = Zero THEN Zero ELSE mark(p))
    /\ msg = [type |-> PNL_UPDATE,
              pnl |-> [user_id |-> user_id, realized |-> p.realized_pnl_,
                       unrealized |-> p.unrealized_pnl_, position |-> p.position_,
                       avg_price |-> p.avg_price_,
                       equity |-> Add(p.realized_pnl_, p.unrealized_pnl_)]]

\* What C17 says of the TOB at position i of msgs, `tob` being the top of
\* book and p, bs the two PnL engines after the input message.
MidPnlAfter(msgs, i, tob, p, bs) ==
    IF tob.has_bid \/ tob.has_ask
      THEN /\ PnlBehind(msgs, i) = {i + 1, i + 2}
           /\ MarkedTo(msgs[i + 1], p, tracked_user_id_, MidOf(tob))
           /\ MarkedTo(msgs[i + 2], bs, BS_BOT_USER_ID, MidOf(tob))
      ELSE PnlBehind(msgs, i) = {}

\* C17: whenever a TOB is emitted and at least one side of the book is
\* present, on_midprice is called on both tracked PnL engines with the mid
\* ((bid + ask) / 2, or the price of the only side present) and one
\* PNL_UPDATE per tracked user directly follows the TOB; when neither side is
\* present no PNL_UPDATE follows the TOB.
C17_MidPnl ==
    [][EngineStep =>
        \A i \in PositionsOf(MsgsOf(processed'.log), TOB) :
            MidPnlAfter(MsgsOf(processed'.log), i, top_of_book(Book)',
                        pnl_', bs_pnl_')]_vars

\* The same, for the steps that leave no side of the book at price 0.
C17_PositiveMid ==
    [][(/\ EngineStep
        /\ (top_of_book(Book)').has_bid => (top_of_book(Book)').bid_price > 0
        /\ (top_of_book(Book)').has_ask => (top_of_book(Book)').ask_price > 0)
       => \A i \in PositionsOf(MsgsOf(processed'.log), TOB) :
            MidPnlAfter(MsgsOf(processed'.log), i, top_of_book(Book)',
                        pnl_', bs_pnl_')]_vars

\* The messages of `log` of the given kinds that the output queue refused.
Dropped(log, kinds) ==
    {k \in DOMAIN log : log[k].msg.type \in kinds /\ ~log[k].pushed}

\* C18: every TRADE and every ACK the engine produces for an input message
\* enters the output queue, and so the stream the consumer sees, also when
\* the queue is full at the moment of the push.
C18_NoDrop ==
    [][EngineStep => Dropped(processed'.log, {TRADE, ACK}) = {}]_vars

\* The items between tail_ and head_ of a ring, oldest first.
Contents(q) ==
    [i \in 1..((q.head_ - q.tail_) % (q.mask_ + 1)) |->
        q.buffer_[(q.tail_ + i - 1) % (q.mask_ + 1)]]

\* A thread is about to write the slot another thread is about to read.
SlotRace(k) ==
    \E p, c \in DOMAIN threads :
        /\ threads[p].queue = k /\ threads[p].pc = "push_98"
        /\ threads[c].queue = k /\ threads[c].pc = "pop_113"
        /\ threads[p].head = threads[c].tail

\* C20: with one producer and one consumer, at every point of every
\* interleaving of the steps of push and pop, the items successful pushes
\* published are the items successful pops returned followed by the items
\* still in the ring, in push order: none is lost, duplicated or out of
\* order, no pop returns a slot that was not written, and no slot is read
\* while it is written.
C20_Fifo ==
    /\ history.pushed["queue"] = history.popped["queue"] \o Contents(rings["queue"])
    /\ \A i \in DOMAIN history.popped["queue"] :
          history.popped["queue"][i] \in 1..MaxItems
    /\ \A i, j \in DOMAIN history.pushed["queue"] :
          i < j => history.pushed["queue"][i] < history.pushed["queue"][j]
    /\ ~SlotRace("queue")

\* head_ has wrapped around and tail_ not yet, the producer has found the
\* queue full and the consumer has found it empty, an item was refused, and
\* the consumer is reading a slot while the producer is writing one.
C20_Witness ==
    /\ rings["queue"].head_ < rings["queue"].tail_
    /\ history.full["queue"]
    /\ history.empty["queue"]
    /\ Len(history.pushed["queue"]) < history.offered
    /\ threads["consumer"].pc = "pop_113"
    /\ threads["producer"].pc = "push_98"

\* C19: in the assembled program at most one thread ever calls push on the
\* input queue (through submit_new_order / submit_cancel) and at most one
\* thread ever calls pop on the output queue (through
\* get_next_server_message).
C19_OneCaller ==
    /\ Cardinality(history.pushers["in_queue_"]) <= 1
    /\ Cardinality(history.poppers["out_queue_"]) <= 1

\* C21: the client messages for which submit_new_order or submit_cancel
\* returned true are, in the order of their enqueueing, the messages the
\* engine has popped followed by the messages still queued: each is handed
\* to the engine exactly once, none is lost, and the order is kept, with the
\* simulator, the bot and the network thread submitting.
C21_Delivered ==
    history.pushed["in_queue_"]
        = history.popped["in_queue_"] \o Contents(rings["in_queue_"])

\* C22: once stop() has cleared the running flag the engine loop ends and
\* stop() returns, whatever the producer does; after the flag was cleared
\* the loop pops at most BATCH_SIZE further messages; and once the loop has
\* ended nothing more is popped from the input queue.
C22_StopReturns ==
    /\ (stopping.pc = "join") ~> (stopping.pc = "returned")
    /\ [](stopping.since <= BATCH_SIZE)
    /\ [][loop.pc = "exited" =>
            /\ loop'.pc = "exited"
            /\ rings'["in_queue_"].tail_ = rings["in_queue_"].tail_
            /\ history'.popped["in_queue_"] = history.popped["in_queue_"]]_vars

\* stop() has returned after the loop finished a full batch of messages
\* popped after the flag was cleared, and a message is still queued.
C22_Witness ==
    /\ stopping.pc = "returned"
    /\ stopping.since = BATCH_SIZE
    /\ Contents(rings["in_queue_"]) /= <<>>

\* The PnL snapshots carried by the PNL_UPDATE messages among msgs.
SnapshotsOf(msgs) == {msgs[i].pnl : i \in PositionsOf(msgs, PNL_UPDATE)}

\* C23: every PNL_UPDATE the engine emits carries a snapshot, as returned by
\* PnLEngine::get, whose equity is the sum of its realized and unrealized.
C23_Equity ==
    [][EngineStep =>
        \A snap \in SnapshotsOf(MsgsOf(processed'.log)) :
            snap.equity = Add(snap.realized, snap.unrealized)]_vars

\* One input message caused a PNL_UPDATE with a non-zero realized PnL and a
\* PNL_UPDATE of an open position with a non-zero unrealized PnL.
C23_Witness ==
    /\ \E snap \in SnapshotsOf(MsgsOf(processed.log)) : snap.realized /= Zero
    /\ \E snap \in SnapshotsOf(MsgsOf(processed.log)) :
          /\ snap.position /= Zero
          /\ snap.unrealized /= Zero

SignedFill(h) == IF h.user_is_buy THEN Dbl(h.qty) ELSE Dbl(-h.qty)

\* An on_trade call whose fill is opposite to the position p.
ClosingTrade(p, h) ==
    /\ h.op = "on_trade"
    /\ p.position_ /= Zero
    /\ Less(Zero, p.position_) /= h.user_is_buy

\* C25: an on_trade call with a fill opposite to the position closes
\* min(|position|, qty): realized grows by (price - avg_price) * close for a
\* long and by (avg_price - price) * close for a short; a larger fill leaves
\* a position of the fill's sign, the remainder, at the trade price; a
\* smaller fill leaves avg_price unchanged; an equal fill leaves no position.
C25_Closing ==
    [][(history'.calls = history.calls + 1 /\ ClosingTrade(pnl_, history')) =>
        /\ pnl_'.realized_pnl_ =
              Add(pnl_.realized_pnl_,
                  IF Less(Zero, pnl_.position_)
                    THEN Mul(Sub(history'.price, pnl_.avg_price_),
                             FMin(FAbs(pnl_.position_), Dbl(history'.qty)))
                    ELSE Mul(Sub(pnl_.avg_price_, history'.price),
                             FMin(FAbs(pnl_.position_), Dbl(history'.qty))))
        /\ pnl_'.position_ = Add(pnl_.position_, SignedFill(history'))
        /\ Less(FAbs(pnl_.position_), Dbl(history'.qty)) =>
              /\ pnl_'.avg_price_ = history'.price
              /\ Less(Zero, pnl_'.position_) = history'.user_is_buy
        /\ Less(Dbl(history'.qty), FAbs(pnl_.position_)) =>
              pnl_'.avg_price_ = pnl_.avg_price_
        /\ Dbl(history'.qty) = FAbs(pnl_.position_) =>
              pnl_'.avg_price_ = Zero]_vars

\* A sale of 2 has just turned a long of 1 into a short of 1 at the trade
\* price, with a realized PnL.
C25_Witness ==
    /\ history.op = "on_trade"
    /\ ~history.user_is_buy
    /\ history.qty = 2
    /\ pnl_.position_ = Dbl(-1)
    /\ pnl_.avg_price_ = history.price
    /\ pnl_.realized_pnl_ /= Zero

\* C26: after every on_trade and every on_midprice call the unrealized PnL
\* is the mark of the position against the cached last_mid, 0 when flat,
\* also for trades applied before any mid was received.
C26_MarkedToMid ==
    pnl_.unrealized_pnl_ = (IF pnl_.position_ = Zero THEN Zero ELSE mark(pnl_))

\* The same, once a mid has been received.
C26_MarkedOnceMid ==
    pnl_.last_mid_ /= Zero => C26_MarkedToMid

\* The user who placed the resting order with the given id, from the pool.
OwnerOf(s, id) ==
    s[CHOOSE i \in PoolIdx : s[i].active /\ s[i].order_id = id].user_id

\* The buyer and the seller of a trade made by the NEW_ORDER message m
\* against the book whose pool is s: the incoming order's user on its side,
\* the owner of the resting order on the other.
BuyerOf(s, m, tr) == IF m.side = 0 THEN m.user_id ELSE OwnerOf(s, tr.buy_order_id)
SellerOf(s, m, tr) == IF m.side = 0 THEN OwnerOf(s, tr.sell_order_id) ELSE m.user_id

\* The PNL_UPDATE messages for user U that the trades of one NEW_ORDER call
\* for, starting from U's engine p: one per trade U is a party to, after
\* on_trade with user_is_buy true exactly when U is the buyer.
RECURSIVE PartyUpdates(_, _, _, _, _)
PartyUpdates(p, U, s, m, trades) ==
    IF trades = <<>> THEN <<>>
    ELSE IF U \in {BuyerOf(s, m, Head(trades)), SellerOf(s, m, Head(trades))}
      THEN <<pnl_message(on_trade(p, BuyerOf(s, m, Head(trades)) = U,
                                  Dbl(Head(trades).price), Head(trades).quantity), U)>>
           \o PartyUpdates(on_trade(p, BuyerOf(s, m, Head(trades)) = U,
                                    Dbl(Head(trades).price), Head(trades).quantity),
                           U, s, m, Tail(trades))
      ELSE PartyUpdates(p, U, s, m, Tail(trades))

\* The PNL_UPDATE messages for user U that the attribution loop pushed:
\* those before the first TRADE of the input, none when it made no trade.
AttributedUpdates(msgs, U) ==
    LET ForU(x) == x.type = PNL_UPDATE /\ x.pnl.user_id = U
        before == IF PositionsOf(msgs, TRADE) = {} THEN {}
                  ELSE {i \in DOMAIN msgs : \A j \in 1..i : msgs[j].type /= TRADE}
    IN SelectSeq(SubSeq(msgs, 1, Cardinality(before)), ForU)

\* The messages of the last input are the updates the trades call for.
Attributed(U, p) ==
    AttributedUpdates(MsgsOf(processed'.log), U) =
        PartyUpdates(p, U, storage_, processed'.cm.new_order,
                     [i \in 1..Cardinality(PositionsOf(MsgsOf(processed'.log), TRADE)) |->
                        MsgsOf(processed'.log)[
                            CHOOSE k \in PositionsOf(MsgsOf(processed'.log), TRADE) :
                                Cardinality({j \in PositionsOf(MsgsOf(processed'.log), TRADE) : j <= k}) = i].trade])

\* A trade whose buyer and seller are the same user.
SelfTrade(s, m, msgs) ==
    \E i \in PositionsOf(msgs, TRADE) :
        BuyerOf(s, m, msgs[i].trade) = SellerOf(s, m, msgs[i].trade)

\* C27: for every trade of a NEW_ORDER and each of the users 1 and 9999: if
\* the user is the buyer or the seller, on_trade is called on that user's
\* engine with user_is_buy true exactly when the user is the buyer, with
\* the trade's price and quantity, and a PNL_UPDATE with the user's id is
\* emitted; if the user is neither, that engine is not touched.
C27_Attributed ==
    [][(EngineStep /\ processed'.cm.type = NEW_ORDER) =>
        /\ Attributed(tracked_user_id_, pnl_)
        /\ Attributed(BS_BOT_USER_ID, bs_pnl_)]_vars

\* The same for the inputs none of whose trades has one user on both sides.
C27_AttributedUnlessSelfTrade ==
    [][(/\ EngineStep
        /\ processed'.cm.type = NEW_ORDER
        /\ ~SelfTrade(storage_, processed'.cm.new_order, MsgsOf(processed'.log))) =>
        /\ Attributed(tracked_user_id_, pnl_)
        /\ Attributed(BS_BOT_USER_ID, bs_pnl_)]_vars

\* C28: after every processed input message order_user_ holds exactly the
\* ids of the orders that rest in the book: an id is inserted when its order
\* rests and erased when the order is cancelled or filled to zero.
C28_ExactlyResting == DOMAIN order_user_ = ActiveIds(storage_)

\* Every resting order has its owner in order_user_.
C28_RestingAreMapped ==
    \A k \in PoolIdx :
        storage_[k].active =>
            /\ storage_[k].order_id \in DOMAIN order_user_
            /\ order_user_[storage_[k].order_id] = storage_[k].user_id

\* The messages that entered the output queue, of those handed to push.
Delivered(log) ==
    LET Pushed(e) == e.pushed
    IN MsgsOf(SelectSeq(log, Pushed))

\* The sequences of messages that can enter the output queue when the
\* engine, in its present state, processes the NEW_ORDER m while the queue
\* holds `queue`.
NewOrderOutcomes(queue, m, r) ==
    {Delivered(push_all([queue |-> queue, log |-> <<>>],
                        new_order_outputs(EngineState, m, r).out \o lb \o la,
                        OutCapacity).log) :
        lb \in Orderings(diff_side(snapshot_bids(Book), snapshot_bids(r.b), 0)),
        la \in Orderings(diff_side(snapshot_asks(Book), snapshot_asks(r.b), 1))}

\* The same for the CANCEL m.
CancelOutcomes(queue, m, r) ==
    {Delivered(push_all([queue |-> queue, log |-> <<>>],
                        cancel_outputs(EngineState, m, r).out \o lb \o la,
                        OutCapacity).log) :
        lb \in Orderings(diff_side(snapshot_bids(Book), snapshot_bids(r.b), 0)),
        la \in Orderings(diff_side(snapshot_asks(Book), snapshot_asks(r.b), 1))}

\* One outcome, the same whether or not the consumer takes a message first.
OneOutcome(now, later) ==
    /\ Cardinality(now) = 1
    /\ out_queue_ /= <<>> => later = now

\* C30: the engine is deterministic: from one state, one input message has
\* one sequence of output messages, the order of the L2_UPDATE frames
\* included, so two engines in that state fed that message agree.
C30_Deterministic ==
    /\ \A m \in NewOrderMsgs :
          OneOutcome(NewOrderOutcomes(out_queue_, m,
                                      submit_limit_order(Book, make_order(m))),
                     NewOrderOutcomes(Tail(out_queue_), m,
                                      submit_limit_order(Book, make_order(m))))
    /\ \A m \in CancelMsgs :
          OneOutcome(CancelOutcomes(out_queue_, m, cancel_order(Book, m.order_id)),
                     CancelOutcomes(Tail(out_queue_), m,
                                    cancel_order(Book, m.order_id)))


\* --------------------------------------------- the network server's deframer
\* One client connection of NetworkServer::run_loop, one recv call per
\* step.  Steps 3 and 4 of the loop (send, broadcast) act on send_queue
\* only and are left out; what handle_client_payload does with a payload is
\* NetSubmit above, here the call itself is recorded in history.payloads.
MaxByte == 1
MaxStream == 10
MaxChunk == 3
MaxClients == 1

\* The values of the bytes a client sends.
Bytes == 0..MaxByte

\* What one recv call can return when it returns data
\* (network_server.cpp:226-228): at least one byte, no more than the buffer.
Chunks == UNION {[1..n -> Bytes] : n \in 1..MaxChunk}

\* The socket accept returns (network_server.cpp:200).
ClientFd == 5

\* network_server.cpp:238: the largest frame the server accepts, 10 MiB.
MaxFrameLen == 10 * 1024 * 1024

\* network_server.cpp:234-237: the big-endian length in the first four bytes.
read_length(buf) == buf[1] * 16777216 + buf[2] * 65536 + buf[3] * 256 + buf[4]

\* network_server.cpp:238
too_large(len) == len > MaxFrameLen

\* A payload taken from the front of the buffer, header included.
payload_of_from_header(buf, len) == SubSeq(buf, 1, len)

\* network_server.cpp:246-247: the bytes after the header.
payload_of(buf, len) == SubSeq(buf, 5, 4 + len)

\* network_server.cpp:249: erase the header and the payload.
erase_consumed(buf, len) == SubSeq(buf, 5 + len, Len(buf))

\* network_server.cpp:231-253, the loop over the frames in the buffer: d
\* holds the buffer, the payloads handed to handle_client_payload and
\* whether the loop ended on a frame that is too large.
RECURSIVE process_frames(_)
process_frames(d) ==
    IF Len(d.recv_buffer) < 4 THEN d
    ELSE IF too_large(read_length(d.recv_buffer))
      THEN [d EXCEPT !.too_large = TRUE]
    ELSE IF Len(d.recv_buffer) < 4 + read_length(d.recv_buffer) THEN d
    ELSE process_frames(
            [recv_buffer |-> erase_consumed(d.recv_buffer, read_length(d.recv_buffer)),
             payloads |-> Append(d.payloads,
                                 payload_of(d.recv_buffer, read_length(d.recv_buffer))),
             too_large |-> d.too_large])

\* network_server.cpp:322-336: close and erase the clients in to_remove.
remove_clients(clients, fds) ==
    [fd \in (DOMAIN clients) \ {fds[i] : i \in DOMAIN fds} |-> clients[fd]]

\* NetworkServer before run_loop accepts a client; history holds the bytes
\* the client's recv calls returned and the payloads dispatched.
InitDeframer ==
    /\ InitServer
    /\ rings = <<>>
    /\ threads = <<>>
    /\ history = [accepted |-> 0, recvd |-> <<>>, payloads |-> <<>>]

\* network_server.cpp:195-217: an iteration that accepts the client.
Accept ==
    /\ run_loop = "select"
    /\ history.accepted < MaxClients
    /\ ClientFd \notin DOMAIN clients_
    /\ clients_' = Put(clients_, ClientFd, [fd |-> ClientFd, recv_buffer |-> <<>>])
    /\ history' = [accepted |-> history.accepted + 1, recvd |-> <<>>, payloads |-> <<>>]
    /\ UNCHANGED <<serverVars, lifeVars, rings, threads, to_remove, run_loop>>

\* network_server.cpp:185-224: select reports the client readable.
Readable ==
    /\ run_loop = "select"
    /\ ClientFd \in DOMAIN clients_
    /\ run_loop' = "recv"
    /\ UNCHANGED <<serverVars, lifeVars, queueVars, clients_, to_remove>>

\* network_server.cpp:227-254: recv returns data; the frames now complete
\* are dispatched.
RecvData ==
    /\ run_loop = "recv"
    /\ Len(history.recvd) < MaxStream
    /\ \E chunk \in Chunks :
          /\ Len(history.recvd) + Len(chunk) <= MaxStream
          /\ \E d \in {process_frames(
                          [recv_buffer |-> clients_[ClientFd].recv_buffer \o chunk,
                           payloads |-> <<>>, too_large |-> FALSE])} :
                /\ clients_' = [clients_ EXCEPT ![ClientFd].recv_buffer = d.recv_buffer]
                /\ to_remove' = IF d.too_large THEN Append(to_remove, ClientFd)
                                ELSE to_remove
                /\ history' = [history EXCEPT !.recvd = @ \o chunk,
                                              !.payloads = @ \o d.payloads]
    /\ UNCHANGED <<serverVars, lifeVars, rings, threads, run_loop>>

\* network_server.cpp:255-261 and 322-336: recv would block, the iteration
\* goes on to its end and removes the clients in to_remove.
RecvWouldBlock ==
    /\ run_loop = "recv"
    /\ clients_' = remove_clients(clients_, to_remove)
    /\ to_remove' = <<>>
    /\ run_loop' = "select"
    /\ UNCHANGED <<serverVars, lifeVars, queueVars>>

\* network_server.cpp:262-264 and 322-336: the connection was closed or
\* failed; the client is removed at the end of the iteration.
RecvClosed ==
    /\ run_loop = "recv"
    /\ clients_' = remove_clients(clients_, Append(to_remove, ClientFd))
    /\ to_remove' = <<>>
    /\ run_loop' = "select"
    /\ UNCHANGED <<serverVars, lifeVars, queueVars>>

NextDeframer == Accept \/ Readable \/ RecvData \/ RecvWouldBlock \/ RecvClosed
SpecDeframer == InitDeframer /\ [][NextDeframer]_vars

\* The length announced by the header that starts at position `at` of s.
AnnouncedAt(s, at) ==
    s[at] * 16777216 + s[at + 1] * 65536 + s[at + 2] * 256 + s[at + 3]

\* The payloads of the complete frames of the byte stream s from position
\* `at` on, up to the first header that is cut short, whose payload is cut
\* short, or that announces more than 10 MiB.
RECURSIVE FramesOf(_, _)
FramesOf(s, at) ==
    IF at + 3 > Len(s) THEN <<>>
    ELSE IF AnnouncedAt(s, at) > MaxFrameLen THEN <<>>
    ELSE IF at + 3 + AnnouncedAt(s, at) > Len(s) THEN <<>>
    ELSE <<[i \in 1..AnnouncedAt(s, at) |-> s[at + 3 + i]]>>
            \o FramesOf(s, at + 4 + AnnouncedAt(s, at))

\* The stream s holds, where a frame starts, a header that announces more
\* than 10 MiB.
RECURSIVE Rejected(_, _)
Rejected(s, at) ==
    IF at + 3 > Len(s) THEN FALSE
    ELSE IF AnnouncedAt(s, at) > MaxFrameLen THEN TRUE
    ELSE IF at + 3 + AnnouncedAt(s, at) > Len(s) THEN FALSE
    ELSE Rejected(s, at + 4 + AnnouncedAt(s, at))

\* C29: the deframer hands handle_client_payload exactly the complete
\* [u32 length][payload] frames of the client's byte stream, in order,
\* however the bytes are split across recv calls; after a header that
\* announces more than 10 MiB nothing of that header or of later bytes is
\* dispatched, and the client is gone when the loop iteration ends.
C29_Deframed ==
    /\ history.payloads = FramesOf(history.recvd, 1)
    /\ (run_loop = "select" /\ Rejected(history.recvd, 1)) =>
            ClientFd \notin DOMAIN clients_

\* A frame with a payload was dispatched, then a header was rejected, more
\* bytes followed, and the client was removed.
C29_Witness ==
    /\ history.accepted = 1
    /\ Len(history.payloads) = 1
    /\ history.payloads[1] /= <<>>
    /\ Rejected(history.recvd, 1)
    /\ Len(history.recvd) > 4 + Len(history.payloads[1]) + 4
    /\ run_loop = "select"
    /\ ClientFd \notin DOMAIN clients_


\* ------------------------------------------------ levels, snapshots, top
\* A snapshot lists exactly the prices of `map`, each with the sum of the
\* quantities of the orders linked at it.
ListsLevels(snapshot, map) ==
    /\ Len(snapshot) = Cardinality(DOMAIN map)
    /\ {snapshot[i][1] : i \in DOMAIN snapshot} = DOMAIN map
    /\ \A i \in DOMAIN snapshot :
          snapshot[i][2] = Aggregate(storage_, map, snapshot[i][1])

\* C31: no price key of bids_ or asks_ has an empty FIFO; snapshot_bids and
\* snapshot_asks list exactly the prices of the map, bids descending and asks
\* ascending, each with the sum of the quantities linked at the price; and
\* top_of_book reports the first snapshot entry of each side.
C31_LevelsAndSnapshots ==
    /\ \A p \in DOMAIN bids_ : Fifo(storage_, bids_, p) /= <<>>
    /\ \A p \in DOMAIN asks_ : Fifo(storage_, asks_, p) /= <<>>
    /\ ListsLevels(snapshot_bids(Book), bids_)
    /\ ListsLevels(snapshot_asks(Book), asks_)
    /\ \A i, j \in DOMAIN snapshot_bids(Book) :
          i < j => snapshot_bids(Book)[i][1] > snapshot_bids(Book)[j][1]
    /\ \A i, j \in DOMAIN snapshot_asks(Book) :
          i < j => snapshot_asks(Book)[i][1] < snapshot_asks(Book)[j][1]
    /\ top_of_book(Book).has_bid = (snapshot_bids(Book) /= <<>>)
    /\ top_of_book(Book).has_ask = (snapshot_asks(Book) /= <<>>)
    /\ snapshot_bids(Book) /= <<>> =>
          /\ top_of_book(Book).bid_price = snapshot_bids(Book)[1][1]
          /\ top_of_book(Book).bid_quantity = snapshot_bids(Book)[1][2]
    /\ snapshot_asks(Book) /= <<>> =>
          /\ top_of_book(Book).ask_price = snapshot_asks(Book)[1][1]
          /\ top_of_book(Book).ask_quantity = snapshot_asks(Book)[1][2]

\* A sell has just emptied the best bid level, which is gone from the map,
\* and a lower bid level remains.
C31_Witness ==
    /\ lastCall.op = "submit"
    /\ lastCall.order.side = Sell
    /\ lastCall.out_trades /= <<>>
    /\ lastCall.out_trades[1].price \notin DOMAIN bids_
    /\ DOMAIN bids_ /= {}

\* The ids of the orders that rested once and rest no more: acknowledged
\* with a non-zero id by an earlier input and linked nowhere now, so
\* cancelled or filled to zero.
Terminated == stream.order_ids \ ActiveIds(storage_)

\* C32: Cancelled and Filled are terminal: an order id that was cancelled or
\* filled to zero never again is in the order index, holds quantity in the
\* book or is the buy_order_id or sell_order_id of a trade, and every later
\* CANCEL for it is acknowledged with status 1.
C32_Terminal ==
    [][EngineStep =>
        /\ Terminated \cap DOMAIN order_index_' = {}
        /\ Terminated \cap ActiveIds(storage_') = {}
        /\ \A i \in PositionsOf(MsgsOf(processed'.log), TRADE) :
              /\ MsgsOf(processed'.log)[i].trade.buy_order_id \notin Terminated
              /\ MsgsOf(processed'.log)[i].trade.sell_order_id \notin Terminated
        /\ (processed'.cm.type = CANCEL /\ processed'.cm.cancel.order_id \in Terminated)
              => TheAck(MsgsOf(processed'.log)).status = 1]_vars

\* A CANCEL for an order that an earlier input filled to zero was refused.
C32_Witness ==
    /\ processed.cm.type = CANCEL
    /\ processed.cm.cancel.order_id \in Terminated
    /\ stream.trade_ids /= {}
    /\ TheAck(MsgsOf(processed.log)).status = 1


\* ------------------------------------------- a ring of any requested capacity
\* The producer and the consumer of SpecQueue on a ring constructed with any
\* requested capacity from 1 to MaxRequested.
MaxRequested == 4

InitRing ==
    /\ InitServer
    /\ \E capacity \in 1..MaxRequested :
          rings = [k \in {"queue"} |-> SPSCQueue(capacity)]
    /\ threads = [t \in {"producer", "consumer"} |-> Idle]
    /\ history = NoHistory({"queue"})

SpecRing == InitRing /\ [][NextQueue]_vars

\* A step in which push returns false to the producer (order_pool.hpp:95).
PushRefused ==
    /\ threads["producer"].pc = "push_93"
    /\ threads'["producer"].pc = "idle"

\* C33: push returns false only when the queue is full, that is when the
\* number of items pushed and not yet popped equals capacity(); so a push
\* onto an empty queue succeeds for every requested capacity >= 1; and a
\* failed push leaves the contents of the queue unchanged.
C33_RefusedOnlyWhenFull ==
    [][PushRefused =>
        /\ Len(Contents(rings["queue"])) = rings["queue"].capacity_
        /\ Contents(rings'["queue"]) = Contents(rings["queue"])]_vars

\* What holds instead: push returns false exactly with capacity() - 1 items
\* queued, and the contents stay.
C33_RefusedAtOneLess ==
    [][PushRefused =>
        /\ Len(Contents(rings["queue"])) = rings["queue"].capacity_ - 1
        /\ Contents(rings'["queue"]) = Contents(rings["queue"])]_vars

\* A ring requested with capacity 1 never accepts an item.
C33_CapacityOneHoldsNothing ==
    rings["queue"].capacity_ = 1 => history.pushed["queue"] = <<>>

\* A step in which pop hands an item of the output queue to thread t.
TakenBy(t) ==
    /\ threads[t].pc = "pop_114"
    /\ threads[t].queue = "out_queue_"
    /\ threads'[t].pc = "idle"

\* C34: every message the engine enqueued on its output queue is dequeued
\* by the network thread, whose broadcast loop appends it to the send queue
\* of every connected client, in the engine's order, so that a connected
\* client misses none: the messages enqueued are those the network thread
\* took followed by those still queued.
C34_Broadcast ==
    /\ [](history.pushed["out_queue_"]
            = history.popped["out_queue_"] \o Contents(rings["out_queue_"]))
    /\ [][history'.popped["out_queue_"] /= history.popped["out_queue_"]
            => TakenBy("net")]_vars

\* What holds instead: a message that leaves the output queue was taken by
\* the network thread or by the bot.
C34_NetOrBot ==
    [][history'.popped["out_queue_"] /= history.popped["out_queue_"]
            => TakenBy("net") \/ TakenBy("bot")]_vars

\* C35: every resting order has a remaining quantity above 0, every trade a
\* submit produces has a quantity above 0, and an order whose remaining
\* quantity reaches 0 is gone from the book when the submit that exhausted
\* it returns.
C35_PositiveQuantities ==
    /\ [](\A k \in PoolIdx : storage_[k].active => storage_[k].quantity > 0)
    /\ [][lastCall'.op = "submit" =>
            /\ \A i \in DOMAIN lastCall'.out_trades :
                  lastCall'.out_trades[i].quantity > 0
            /\ \A k \in PoolIdx :
                  (/\ storage_[k].active
                   /\ TradedAgainst(lastCall'.order, lastCall'.out_trades,
                                    storage_[k].order_id) = storage_[k].quantity)
                     => storage_[k].order_id \notin DOMAIN order_index_']_vars

\* A submit has exhausted one resting order and left another partly filled.
C35_Witness ==
    /\ lastCall.op = "submit"
    /\ Len(lastCall.out_trades) >= 2
    /\ RestingId(lastCall.order, lastCall.out_trades[1]) \notin DOMAIN order_index_
    /\ RestingId(lastCall.order, lastCall.out_trades[2]) \in DOMAIN order_index_

\* The levels of both sides, as pairs of side and price.
Levels == {sp \in {Buy, Sell} \X Prices : sp[2] \in DOMAIN side_map(Book, sp[1])}

\* The list of one level, walked through next from its head.
ListOf(sp) == Fifo(storage_, side_map(Book, sp[1]), sp[2])

\* One level's list: it starts at a head without predecessor, ends at the
\* tail, which has no successor, visits no node twice, and prev undoes next.
WellLinked(sp) ==
    LET lv == side_map(Book, sp[1])[sp[2]]
        w == ListOf(sp)
    IN /\ w /= <<>>
       /\ w[1] = lv.head
       /\ w[Len(w)] = lv.tail
       /\ storage_[lv.head].prev = UINT32_MAX
       /\ storage_[lv.tail].next = UINT32_MAX
       /\ Cardinality(Range(w)) = Len(w)
       /\ \A i \in 1..(Len(w) - 1) :
             /\ storage_[w[i]].next = w[i + 1]
             /\ storage_[w[i + 1]].prev = w[i]

\* How often pool index k occurs on the free list, and in how many levels.
TimesFree(k) == Cardinality({i \in DOMAIN free_list_ : free_list_[i] = k})
TimesLinked(k) == Cardinality({sp \in Levels : k \in Range(ListOf(sp))})

\* C36: after every submit and cancel each pool index is either on the free
\* list exactly once (and inactive, in no level) or active and linked in
\* exactly one level; every level's list is well linked; and the matching
\* walk of a submit trades only against distinct orders that were linked
\* before the call, so it never comes back to a slot it released.
C36_ListsWellFormed ==
    /\ [](/\ \A k \in PoolIdx :
              \/ ~storage_[k].active /\ TimesFree(k) = 1 /\ TimesLinked(k) = 0
              \/ storage_[k].active /\ TimesFree(k) = 0 /\ TimesLinked(k) = 1
          /\ \A sp \in Levels : WellLinked(sp))
    /\ [][lastCall'.op = "submit"
            => LET trs == lastCall'.out_trades
                   o == lastCall'.order
               IN /\ \A i \in DOMAIN trs :
                        \E k \in PoolIdx :
                           /\ storage_[k].active
                           /\ storage_[k].order_id = RestingId(o, trs[i])
                           /\ storage_[k].quantity >= trs[i].quantity
                  /\ \A i, j \in DOMAIN trs :
                        i /= j => RestingId(o, trs[i]) /= RestingId(o, trs[j])]_vars

\* C36 witness: a submit released the head of a level during its walk and
\* went on to the next order, which stays linked as head and tail.
C36_Witness ==
    /\ lastCall.op = "submit"
    /\ Len(lastCall.out_trades) >= 2
    /\ free_list_ /= <<>>
    /\ \E sp \in Levels :
          /\ Len(ListOf(sp)) = 1
          /\ storage_[ListOf(sp)[1]].order_id
                = RestingId(lastCall.order, lastCall.out_trades[2])


\* The engine processed a NEW_ORDER that made at least one trade.
TradingStep ==
    /\ EngineStep
    /\ processed'.cm.type = NEW_ORDER
    /\ PositionsOf(MsgsOf(processed'.log), TRADE) /= {}

\* Among msgs, behind a TOB, one PNL_UPDATE for each of the two tracked users.
MidUpdatesIn(msgs) ==
    \A U \in {tracked_user_id_, BS_BOT_USER_ID} :
        \E t \in PositionsOf(msgs, TOB) :
            \E j \in PnlBehind(msgs, t) : msgs[j].pnl.user_id = U

\* The input caused a PNL_UPDATE of the trade attribution.
TradeDriven(msgs) ==
    \E U \in {tracked_user_id_, BS_BOT_USER_ID} : AttributedUpdates(msgs, U) /= <<>>

\* C37: every NEW_ORDER that makes at least one trade also causes a TOB
\* message, and when it caused a trade-driven PNL_UPDATE and a side of the
\* book remains, the outputs of the same input hold, behind the TOB, a
\* mid-driven PNL_UPDATE for each tracked user.
C37_TradeThenMid ==
    [][TradingStep =>
        /\ PositionsOf(MsgsOf(processed'.log), TOB) /= {}
        /\ (/\ TradeDriven(MsgsOf(processed'.log))
            /\ (top_of_book(Book)').has_bid \/ (top_of_book(Book)').has_ask)
           => MidUpdatesIn(MsgsOf(processed'.log))]_vars

\* The first half alone: a NEW_ORDER that trades causes a TOB message.
C37_TradeCausesTob ==
    [][TradingStep => PositionsOf(MsgsOf(processed'.log), TOB) /= {}]_vars

\* The second half for the steps that leave a mid above 0.
C37_MidWhenPositive ==
    [][(/\ TradingStep
        /\ TradeDriven(MsgsOf(processed'.log))
        /\ (top_of_book(Book)').has_bid \/ (top_of_book(Book)').has_ask
        /\ MidOf(top_of_book(Book)') /= Zero)
       => MidUpdatesIn(MsgsOf(processed'.log))]_vars


\* A snapshot as the list of levels a client holds.
AsLevels(snapshot) ==
    [i \in DOMAIN snapshot |-> [price |-> snapshot[i][1], quantity |-> snapshot[i][2]]]

\* C38: a client that starts from an empty book, is handed every output of
\* the engine and applies every L2_UPDATE in order (the level is set to the
\* quantity, deleted when it is 0) and remembers the last TOB holds, after
\* the outputs of each input, the levels of snapshot_bids and snapshot_asks
\* and the prices and quantities of top_of_book.
C38_ClientMirrorsBook ==
    /\ stream.ui.bids = AsLevels(snapshot_bids(Book))
    /\ stream.ui.asks = AsLevels(snapshot_asks(Book))
    /\ stream.ui.tob = TobOnWire(top_of_book(Book))

\* C38 witness: the client holds a level on both sides after an input whose
\* outputs deleted a level and changed the top of book.
C38_Witness ==
    /\ popped >= 2
    /\ stream.ui.bids /= <<>>
    /\ stream.ui.asks /= <<>>
    /\ PositionsOf(MsgsOf(processed.log), TOB) /= {}
    /\ \E i \in PositionsOf(MsgsOf(processed.log), L2_UPDATE) :
          MsgsOf(processed.log)[i].l2.quantity = 0


\* C39: for each tracked user the position of its PnL engine is the total
\* quantity the user bought less the total it sold over all trades so
\* far; a trade with the user on both sides leaves the position unchanged.
C39_PositionIsNetBought ==
    /\ pnl_.position_ = Dbl(stream.net[tracked_user_id_])
    /\ bs_pnl_.position_ = Dbl(stream.net[BS_BOT_USER_ID])

\* The same for the steps without a trade that has one user on both sides.
C39_NetBoughtUnlessSelfTrade ==
    [][(/\ EngineStep
        /\ processed'.cm.type = NEW_ORDER
        /\ ~SelfTrade(storage_, processed'.cm.new_order, MsgsOf(processed'.log)))
       => /\ Sub(pnl_'.position_, pnl_.position_)
               = Dbl(stream'.net[tracked_user_id_] - stream.net[tracked_user_id_])
          /\ Sub(bs_pnl_'.position_, bs_pnl_.position_)
               = Dbl(stream'.net[BS_BOT_USER_ID] - stream.net[BS_BOT_USER_ID])]_vars


\* The pool indices of the orders resting in the book.
Resting == {k \in PoolIdx : storage_[k].active}

\* C40: whatever mix of caller-supplied ids, ids assigned by the book and
\* cancels the callers choose, no two orders resting at the same time share
\* an order id, size() is the number of resting orders, and cancel_order
\* with the id of a resting order returns true and takes that order out.
C40_RestingIdsUnique ==
    /\ \A k, l \in Resting : storage_[k].order_id = storage_[l].order_id => k = l
    /\ Cardinality(DOMAIN order_index_) = Cardinality(Resting)
    /\ \A k \in Resting :
          /\ cancel_order(Book, storage_[k].order_id).ret
          /\ ~cancel_order(Book, storage_[k].order_id).b.storage_[k].active

====
